---------------------------- MODULE Spec2Model ----------------------------
(***************************************************************************)
(* PyHatchery: project-name normalisation and validation (name_service.py, *)
(* names.py), the 'cli' group and its 'new' command (cli.py, with          *)
(* utils/config.py), and the choice prompt of interactive_wizard.py.       *)
(*                                                                         *)
(* A Python str is a sequence of strings: one per character, and one per   *)
(* literal piece of a message.  An Optional value is a sequence of length  *)
(* 0 (None) or 1 (the value).                                              *)
(***************************************************************************)
EXTENDS Integers, Sequences, FiniteSets, TLC

VARIABLES
    \* the functions of name_service.py, called on their own
    at,        \* which call has been made on arg
    arg,       \* the str handed to the function
    once,      \* pep503_normalize(arg)
    twice,     \* pep503_normalize(once)
    verdict,   \* the (bool, message) the check made returned
    \* one run of the 'new' command (cli.py)
    pc,                \* the block of new() about to run
    project_name_arg,  \* PROJECT_NAME
    cmd_options,       \* NewCommandOptions
    pypi_slug,         \* local of _process_project_name
    python_slug,       \* local of _process_project_name
    name_data,         \* Optional[ProjectNameDetails]
    project_details,   \* Optional[dict[str, str]]
    exit_code,         \* Optional[int]: the process's exit code once it has ended
    stderr,            \* the lines written with err=True
    stdout,            \* the lines written to standard output
    calls,             \* the calls made so far, in order: [fn, args]
    \* the 'cli' group the command belongs to
    debug,             \* the --debug flag
    environ,           \* os.environ.get("PYHATCHERY_DEBUG"): Optional[str]
    ctx_obj,           \* Optional: ctx.obj["DEBUG"] once the group callback ran
    \* one call of prompt_for_choice (interactive_wizard.py)
    choice_args,       \* [prompt_message, choices, default_choice]
    selected           \* Optional[str]: what the call returned

libvars == <<at, arg, once, twice, verdict>>
clivars == <<pc, project_name_arg, cmd_options, pypi_slug, python_slug, name_data,
             project_details, exit_code, stderr, stdout, calls>>
groupvars == <<debug, environ, ctx_obj>>
choicevars == <<choice_args, selected>>
vars == <<at, arg, once, twice, verdict, pc, project_name_arg, cmd_options,
          pypi_slug, python_slug, name_data, project_details, exit_code, stderr,
          stdout, calls, debug, environ, ctx_obj, choice_args, selected>>

---------------------------------------------------------------------------
(* Characters and strings.                                                 *)

\* a-z and A-Z, position by position
Lowers == <<"a", "b", "c", "d", "e", "f", "g", "h", "i", "j", "k", "l", "m",
            "n", "o", "p", "q", "r", "s", "t", "u", "v", "w", "x", "y", "z">>
Uppers == <<"A", "B", "C", "D", "E", "F", "G", "H", "I", "J", "K", "L", "M",
            "N", "O", "P", "Q", "R", "S", "T", "U", "V", "W", "X", "Y", "Z">>
LowerLetters == {Lowers[i] : i \in DOMAIN Lowers}
UpperLetters == {Uppers[i] : i \in DOMAIN Uppers}
Digits == {"0", "1", "2", "3", "4", "5", "6", "7", "8", "9"}
\* the class [-_.] of pep503_normalize's pattern
SepChars == {"-", "_", "."}

\* [a-z0-9] under re.IGNORECASE | re.ASCII
AsciiAlnum == LowerLetters \cup UpperLetters \cup Digits
\* [a-z0-9._-] under re.IGNORECASE | re.ASCII
AsciiAlnumOrSep == AsciiAlnum \cup SepChars

\* str.lower() on one character: A-Z, and the non-ASCII letter "É"
LowerChar(c) ==
    IF c \in UpperLetters THEN Lowers[CHOOSE i \in DOMAIN Uppers : Uppers[i] = c]
    ELSE IF c = "É" THEN "é"
    ELSE c

\* str.lower()
Lower(s) == [i \in 1..Len(s) |-> LowerChar(s[i])]

\* Optional[str]
None == <<>>
Some(text) == <<text>>

---------------------------------------------------------------------------
(* name_service.py                                                         *)

_MAX_LEN == 32

\* the rest of s after the run of [-_.] at its front ('+' is greedy)
RECURSIVE SkipRun(_)
SkipRun(s) ==
    IF s # <<>> /\ Head(s) \in SepChars THEN SkipRun(Tail(s)) ELSE s

\* re.sub(r"[-_.]+", "-", s): left to right, each match replaced by "-"
RECURSIVE ReSubRuns(_)
ReSubRuns(s) ==
    IF s = <<>> THEN <<>>
    ELSE IF Head(s) \in SepChars THEN <<"-">> \o ReSubRuns(SkipRun(Tail(s)))
    ELSE <<Head(s)>> \o ReSubRuns(Tail(s))

\* a hand-rolled collapse that squeezes each pair "--" once, as
\* s.replace("--", "-") does
RECURSIVE SqueezePairs(_)
SqueezePairs(s) ==
    IF Len(s) < 2 THEN s
    ELSE IF s[1] = "-" /\ s[2] = "-" THEN <<"-">> \o SqueezePairs(Tail(Tail(s)))
    ELSE <<Head(s)>> \o SqueezePairs(Tail(s))

pep503_normalize_pairs(name) ==
    Lower(SqueezePairs([i \in 1..Len(name) |->
        IF name[i] \in SepChars THEN "-" ELSE name[i]]))

\* the pattern without its '+': every separator becomes its own "-"
pep503_normalize_each(name) ==
    Lower([i \in 1..Len(name) |-> IF name[i] \in SepChars THEN "-" ELSE name[i]])

\* the substitution without .lower()
pep503_normalize_no_lower(name) == ReSubRuns(name)

\* the substitution writing "_" for every run
pep503_normalize_to_underscore(name) ==
    LET replaced == ReSubRuns(name)
    IN  Lower([i \in 1..Len(replaced) |-> IF replaced[i] = "-" THEN "_" ELSE replaced[i]])

pep503_normalize(name) == Lower(ReSubRuns(name))

\* _PEP503_VALID_RE.match(s), the automaton of
\*   ^[a-z0-9](?:[a-z0-9._-]*[a-z0-9])?$
\* run from position i.  last_alnum: the character just consumed was [a-z0-9],
\* so the optional group may end here.  '$' holds at the end of s and just
\* before a newline that ends s.
RECURSIVE ReMatchFrom(_, _, _)
ReMatchFrom(s, i, last_alnum) ==
    \/ /\ last_alnum
       /\ \/ i = Len(s) + 1
          \/ i = Len(s) /\ s[i] = "\n"
    \/ /\ i <= Len(s)
       /\ s[i] \in AsciiAlnumOrSep
       /\ ReMatchFrom(s, i + 1, s[i] \in AsciiAlnum)

_PEP503_VALID_RE_match(s) ==
    /\ Len(s) >= 1
    /\ s[1] \in AsciiAlnum
    /\ ReMatchFrom(s, 2, TRUE)

\* project_name.count("_")
Count(s, c) == Cardinality({i \in 1..Len(s) : s[i] = c})

\* f"{_MAX_LEN}"
MaxLenText == "32"

\* the three diagnostics of pep503_name_ok: an f-string is the concatenation
\* of its literal pieces and the interpolated str
MsgViolates(project_name) ==
    <<"Error: Project name '">> \o project_name
        \o <<"' violates PEP 503 conventions.">>
MsgTooLong(project_name) ==
    <<"Error: Project name '">> \o project_name
        \o <<"' is too long (max ", MaxLenText, " chars).">>
MsgUnderscores == <<"Error: Project name cannot contain too many underscores.">>

Result(is_ok, message) == [ok |-> is_ok, msg |-> message]

\* the length test before the pattern test
pep503_name_ok_len_first(project_name) ==
    IF Len(project_name) > _MAX_LEN
    THEN Result(FALSE, Some(MsgTooLong(project_name)))
    ELSE IF ~_PEP503_VALID_RE_match(project_name)
    THEN Result(FALSE, Some(MsgViolates(project_name)))
    ELSE IF Count(project_name, "_") > 2
    THEN Result(FALSE, Some(MsgUnderscores))
    ELSE Result(TRUE, None)

\* '>=' for '>' in the length test
pep503_name_ok_len_ge(project_name) ==
    IF ~_PEP503_VALID_RE_match(project_name)
    THEN Result(FALSE, Some(MsgViolates(project_name)))
    ELSE IF Len(project_name) >= _MAX_LEN
    THEN Result(FALSE, Some(MsgTooLong(project_name)))
    ELSE IF Count(project_name, "_") > 2
    THEN Result(FALSE, Some(MsgUnderscores))
    ELSE Result(TRUE, None)

\* '>=' for '>' in the underscore test
pep503_name_ok_us_ge(project_name) ==
    IF ~_PEP503_VALID_RE_match(project_name)
    THEN Result(FALSE, Some(MsgViolates(project_name)))
    ELSE IF Len(project_name) > _MAX_LEN
    THEN Result(FALSE, Some(MsgTooLong(project_name)))
    ELSE IF Count(project_name, "_") >= 2
    THEN Result(FALSE, Some(MsgUnderscores))
    ELSE Result(TRUE, None)

\* the underscore failure returned without its message
pep503_name_ok_no_msg(project_name) ==
    IF ~_PEP503_VALID_RE_match(project_name)
    THEN Result(FALSE, Some(MsgViolates(project_name)))
    ELSE IF Len(project_name) > _MAX_LEN
    THEN Result(FALSE, Some(MsgTooLong(project_name)))
    ELSE IF Count(project_name, "_") > 2
    THEN Result(FALSE, None)
    ELSE Result(TRUE, None)

\* the pattern test alone
pep503_name_ok_shape_only(project_name) ==
    IF ~_PEP503_VALID_RE_match(project_name)
    THEN Result(FALSE, Some(MsgViolates(project_name)))
    ELSE Result(TRUE, None)

pep503_name_ok(project_name) ==
    IF ~_PEP503_VALID_RE_match(project_name)
    THEN Result(FALSE, Some(MsgViolates(project_name)))
    ELSE IF Len(project_name) > _MAX_LEN
    THEN Result(FALSE, Some(MsgTooLong(project_name)))
    ELSE IF Count(project_name, "_") > 2
    THEN Result(FALSE, Some(MsgUnderscores))
    ELSE Result(TRUE, None)

---------------------------------------------------------------------------
(* names.py                                                                *)

\* str.isalnum() on one character: the ASCII letters and digits, and the
\* non-ASCII letter "É"
IsAlnum(c) == c \in AsciiAlnum \cup {"É", "é"}

\* the validation letting '.' through as well
validate_project_name_with_dot(project_name) ==
    IF ~(\A i \in DOMAIN project_name :
            IsAlnum(project_name[i]) \/ project_name[i] \in {"-", "_", "."})
    THEN Result(FALSE, Some((<<"Error: Project name '">> \o project_name)
                                \o <<"' contains invalid characters.">>))
    ELSE Result(TRUE, None)

\* validate_project_name
validate_project_name(project_name) ==
    IF ~(\A i \in DOMAIN project_name :
            IsAlnum(project_name[i]) \/ project_name[i] \in {"-", "_"})
    THEN Result(FALSE, Some((<<"Error: Project name '">> \o project_name)
                                \o <<"' contains invalid characters.">>))
    ELSE Result(TRUE, None)

---------------------------------------------------------------------------
(* The functions of name_service.py applied to bounded inputs.             *)

MaxLen == 4
MaxPad == 34

\* the characters inputs are built from, one or two per class the code
\* distinguishes: letters of both cases, a digit, the three separators, a
\* non-ASCII letter (str.lower() maps it, re.ASCII excludes it), punctuation,
\* and the newline Python's '$' tolerates at the end of the subject
Chars == {"a", "B", "7", "-", "_", ".", "É", "!", "\n"}

\* every str of at most n characters of chars
RECURSIVE StrsOver(_, _)
StrsOver(chars, n) ==
    IF n = 0 THEN {<<>>}
    ELSE LET shorter == StrsOver(chars, n - 1)
         IN  shorter \cup {Append(t, c) : t \in shorter, c \in chars}

StrsUpTo(n) == StrsOver(Chars, n)

Affixes == {<<>>} \cup {<<c>> : c \in Chars}
Fill == {"a", "_"}
Pad(c, n) == [i \in 1..n |-> c]

\* the names the specification and the tests use
MyDotName == <<"M", "y", ".", "N", "a", "m", "e">>
ValidName == <<"v", "a", "l", "i", "d", "_", "n", "a", "m", "e">>
TestProject == <<"T", "e", "s", "t", "P", "r", "o", "j", "e", "c", "t">>
MyProject == <<"M", "y", "_", "P", "r", "o", "j", "e", "c", "t">>
InvalidBangName == <<"i", "n", "v", "a", "l", "i", "d", "!", "n", "a", "m", "e">>
Examples ==
    {MyDotName, ValidName, TestProject, MyProject, InvalidBangName,
     <<"-", "a", "b", "c">>, <<"a", "b", "c", "-">>}

\* short strings of every shape, the examples, and long strings around
\* _MAX_LEN: an optional character, a run of one fill character, an optional
\* character
Inputs ==
    StrsUpTo(MaxLen) \cup Examples
        \cup {h \o Pad(c, n) \o t : h \in Affixes, t \in Affixes, c \in Fill, n \in 1..MaxPad}

NoVerdict == Result(FALSE, None)
NoChoiceArgs == [prompt_message |-> <<>>, choices |-> <<>>, default_choice |-> <<>>]

NoOptions ==
    [no_interactive |-> FALSE, author |-> None, email |-> None,
     github_username |-> None, description |-> None, license_choice |-> None,
     python_version |-> None]

\* no command is running
CliIdle ==
    /\ pc = "idle"
    /\ project_name_arg = <<>>
    /\ cmd_options = NoOptions
    /\ pypi_slug = <<>>
    /\ python_slug = <<>>
    /\ name_data = None
    /\ project_details = None
    /\ exit_code = None
    /\ stderr = <<>>
    /\ stdout = <<>>
    /\ calls = <<>>
    /\ debug = FALSE
    /\ environ = None
    /\ ctx_obj = None
    /\ choice_args = NoChoiceArgs
    /\ selected = None

LibInit ==
    /\ at = "input"
    /\ arg \in Inputs
    /\ once = <<>>
    /\ twice = <<>>
    /\ verdict = NoVerdict
    /\ CliIdle

CallNormalize ==
    /\ at = "input"
    /\ once' = pep503_normalize(arg)
    /\ at' = "normalized"
    /\ UNCHANGED <<arg, twice, verdict>>
    /\ UNCHANGED clivars
    /\ UNCHANGED groupvars
    /\ UNCHANGED choicevars

CallNormalizeAgain ==
    /\ at = "normalized"
    /\ twice' = pep503_normalize(once)
    /\ at' = "renormalized"
    /\ UNCHANGED <<arg, once, verdict>>
    /\ UNCHANGED clivars
    /\ UNCHANGED groupvars
    /\ UNCHANGED choicevars

CallNameOk ==
    /\ at = "input"
    /\ verdict' = pep503_name_ok(arg)
    /\ at' = "checked"
    /\ UNCHANGED <<arg, once, twice>>
    /\ UNCHANGED clivars
    /\ UNCHANGED groupvars
    /\ UNCHANGED choicevars

\* the convention check applied to the normalized name
CallNameOkOnNormalized ==
    /\ at = "normalized"
    /\ verdict' = pep503_name_ok(once)
    /\ at' = "rechecked"
    /\ UNCHANGED <<arg, once, twice>>
    /\ UNCHANGED clivars
    /\ UNCHANGED groupvars
    /\ UNCHANGED choicevars

CallValidateProjectName ==
    /\ at = "input"
    /\ verdict' = validate_project_name(arg)
    /\ at' = "validated"
    /\ UNCHANGED <<arg, once, twice>>
    /\ UNCHANGED clivars
    /\ UNCHANGED groupvars
    /\ UNCHANGED choicevars

LibNext ==
    \/ CallNormalize
    \/ CallNormalizeAgain
    \/ CallNameOk
    \/ CallNameOkOnNormalized
    \/ CallValidateProjectName

SpecLib == LibInit /\ [][LibNext]_vars

---------------------------------------------------------------------------
(* cli.py and its collaborators.                                           *)

\* Python's truth value of an Optional[str]: neither None nor ""
Truthy(opt) == opt # None /\ opt[1] # <<>>

\* f"{x}" of an Optional[str]
Fmt(opt) == IF opt = None THEN <<"None">> ELSE opt[1]

\* one entry of the call record
Call(f, a, r) == [fn |-> f, args |-> a, ret |-> r]

\* the functions called so far, in order
Called == [i \in 1..Len(calls) |-> calls[i].fn]

\* has_invalid_characters: the characters the gate accepts are those the
\* pipeline goes on to handle, '!' is refused, and the verdict on any other
\* character is left open.  The set of results the call may return.
AcceptedChars == AsciiAlnumOrSep
RefusedChars == {"!"}
MsgInvalidChars(name) ==
    <<"Project name contains invalid characters: ">>
        \o SelectSeq(name, LAMBDA c : c \notin AcceptedChars)
has_invalid_characters(name) ==
    LET refused == [flag |-> TRUE, msg |-> Some(MsgInvalidChars(name))]
        passed == [flag |-> FALSE, msg |-> None]
    IN  IF \E i \in 1..Len(name) : name[i] \in RefusedChars THEN {refused}
        ELSE IF \A i \in 1..Len(name) : name[i] \in AcceptedChars THEN {passed}
        ELSE {refused, passed}

\* derive_python_package_slug: the separators of the registry slug become
\* underscores, in lower case
derive_python_package_slug(slug) ==
    Lower([i \in 1..Len(slug) |-> IF slug[i] \in {"-", "."} THEN "_" ELSE slug[i]])

\* is_valid_python_package_name: the package-identifier convention check,
\* three rules in order, the first failure reported
is_valid_python_package_name(slug) ==
    IF ~_PEP503_VALID_RE_match(slug)
    THEN Result(FALSE, Some(<<"violates conventions.">>))
    ELSE IF Len(slug) > 32
    THEN Result(FALSE, Some(<<"too long (max 32 chars).">>))
    ELSE IF Count(slug, "_") > 2
    THEN Result(FALSE, Some(<<"too many underscores.">>))
    ELSE Result(TRUE, None)

\* check_pypi_availability: (is_taken: Optional[bool], error: Optional[str]),
\* whatever the network gives
NetworkError == <<"Network error">>
AvailabilityResults ==
    {[is_taken |-> t, error |-> e] :
        t \in {None, Some(TRUE), Some(FALSE)},
        e \in {None, Some(<<>>), Some(NetworkError)}}

\* the warnings of _perform_project_name_checks
MsgAvailabilityFailed(slug, error) ==
    <<"PyPI availability check for '">> \o slug \o <<"' failed: ">> \o Fmt(error)
MsgTaken(slug) ==
    <<"The name '">> \o slug
        \o <<"' might already be taken on PyPI. You may want to choose a different name if you plan to publish this package publicly.">>
MsgPythonSlug(slug, original_input_name, error) ==
    <<"Derived Python package name '">> \o slug \o <<"' (from input '">>
        \o original_input_name \o <<"') is not PEP 8 compliant: ">> \o Fmt(error)

MsgProblemsFound ==
    <<"Problems were found during project name checks. You can choose to proceed or cancel.">>
WarningLines(warnings) ==
    [i \in 1..Len(warnings) |-> <<"Warning: ">> \o warnings[i]]

\* the checks with the diagnostic of pep503_name_ok on the original name put
\* first in the list
_perform_project_name_checks_name_first(original_input_name, slug, py_slug, lookup) ==
    LET name_ok == pep503_name_ok(original_input_name)
        first == IF ~name_ok.ok THEN <<Fmt(name_ok.msg)>> ELSE <<>>
        pypi ==
            IF Truthy(lookup.error)
            THEN <<MsgAvailabilityFailed(slug, lookup.error)>>
            ELSE IF lookup.is_taken = Some(TRUE) THEN <<MsgTaken(slug)>>
            ELSE <<>>
        valid == is_valid_python_package_name(py_slug)
        python ==
            IF ~valid.ok
            THEN <<MsgPythonSlug(py_slug, original_input_name, valid.msg)>>
            ELSE <<>>
        warnings == (first \o pypi) \o python
    IN  [warnings |-> warnings,
         err |-> IF warnings # <<>>
                 THEN <<MsgProblemsFound>> \o WarningLines(warnings)
                 ELSE <<>>]

\* the checks with the diagnostic of pep503_name_ok on the original name put
\* last in the list
_perform_project_name_checks_name_last(original_input_name, slug, py_slug, lookup) ==
    LET name_ok == pep503_name_ok(original_input_name)
        last == IF ~name_ok.ok THEN <<Fmt(name_ok.msg)>> ELSE <<>>
        pypi ==
            IF Truthy(lookup.error)
            THEN <<MsgAvailabilityFailed(slug, lookup.error)>>
            ELSE IF lookup.is_taken = Some(TRUE) THEN <<MsgTaken(slug)>>
            ELSE <<>>
        valid == is_valid_python_package_name(py_slug)
        python ==
            IF ~valid.ok
            THEN <<MsgPythonSlug(py_slug, original_input_name, valid.msg)>>
            ELSE <<>>
        warnings == (pypi \o python) \o last
    IN  [warnings |-> warnings,
         err |-> IF warnings # <<>>
                 THEN <<MsgProblemsFound>> \o WarningLines(warnings)
                 ELSE <<>>]

\* the checks with the 'normalized' notice put in the list
_perform_project_name_checks_with_notice(original_input_name, slug, py_slug, lookup) ==
    LET notice ==
            IF original_input_name # slug
            THEN <<<<"Project name '">> \o original_input_name
                       \o <<"' normalized to '">> \o slug \o <<"'.">>>>
            ELSE <<>>
        pypi ==
            IF Truthy(lookup.error)
            THEN <<MsgAvailabilityFailed(slug, lookup.error)>>
            ELSE IF lookup.is_taken = Some(TRUE) THEN <<MsgTaken(slug)>>
            ELSE <<>>
        valid == is_valid_python_package_name(py_slug)
        python ==
            IF ~valid.ok
            THEN <<MsgPythonSlug(py_slug, original_input_name, valid.msg)>>
            ELSE <<>>
        warnings == (notice \o pypi) \o python
    IN  [warnings |-> warnings,
         err |-> IF warnings # <<>>
                 THEN <<MsgProblemsFound>> \o WarningLines(warnings)
                 ELSE <<>>]

\* the checks with the registry slug named as the input of the identifier
_perform_project_name_checks_from_slug(original_input_name, slug, py_slug, lookup) ==
    LET pypi ==
            IF Truthy(lookup.error)
            THEN <<MsgAvailabilityFailed(slug, lookup.error)>>
            ELSE IF lookup.is_taken = Some(TRUE) THEN <<MsgTaken(slug)>>
            ELSE <<>>
        valid == is_valid_python_package_name(py_slug)
        python ==
            IF ~valid.ok
            THEN <<MsgPythonSlug(py_slug, slug, valid.msg)>>
            ELSE <<>>
        warnings == pypi \o python
    IN  [warnings |-> warnings,
         err |-> IF warnings # <<>>
                 THEN <<MsgProblemsFound>> \o WarningLines(warnings)
                 ELSE <<>>]

\* the checks with the package-identifier check made before the lookup
_perform_project_name_checks_python_first(original_input_name, slug, py_slug, lookup) ==
    LET pypi ==
            IF Truthy(lookup.error)
            THEN <<MsgAvailabilityFailed(slug, lookup.error)>>
            ELSE IF lookup.is_taken = Some(TRUE) THEN <<MsgTaken(slug)>>
            ELSE <<>>
        valid == is_valid_python_package_name(py_slug)
        python ==
            IF ~valid.ok
            THEN <<MsgPythonSlug(py_slug, original_input_name, valid.msg)>>
            ELSE <<>>
        warnings == python \o pypi
    IN  [warnings |-> warnings,
         err |-> IF warnings # <<>>
                 THEN <<MsgProblemsFound>> \o WarningLines(warnings)
                 ELSE <<>>]

\* the checks with the two availability tests made independently ('if', 'if')
_perform_project_name_checks_both(original_input_name, slug, py_slug, lookup) ==
    LET failed ==
            IF Truthy(lookup.error)
            THEN <<MsgAvailabilityFailed(slug, lookup.error)>>
            ELSE <<>>
        taken == IF lookup.is_taken = Some(TRUE) THEN <<MsgTaken(slug)>> ELSE <<>>
        valid == is_valid_python_package_name(py_slug)
        python ==
            IF ~valid.ok
            THEN <<MsgPythonSlug(py_slug, original_input_name, valid.msg)>>
            ELSE <<>>
        warnings == (failed \o taken) \o python
    IN  [warnings |-> warnings,
         err |-> IF warnings # <<>>
                 THEN <<MsgProblemsFound>> \o WarningLines(warnings)
                 ELSE <<>>]

\* the checks with the 'taken' test before the error test
_perform_project_name_checks_taken_first(original_input_name, slug, py_slug, lookup) ==
    LET pypi ==
            IF lookup.is_taken = Some(TRUE) THEN <<MsgTaken(slug)>>
            ELSE IF Truthy(lookup.error)
            THEN <<MsgAvailabilityFailed(slug, lookup.error)>>
            ELSE <<>>
        valid == is_valid_python_package_name(py_slug)
        python ==
            IF ~valid.ok
            THEN <<MsgPythonSlug(py_slug, original_input_name, valid.msg)>>
            ELSE <<>>
        warnings == pypi \o python
    IN  [warnings |-> warnings,
         err |-> IF warnings # <<>>
                 THEN <<MsgProblemsFound>> \o WarningLines(warnings)
                 ELSE <<>>]

\* _perform_project_name_checks, given what the lookup returned:
\* [warnings, lines written to stderr]
_perform_project_name_checks(original_input_name, slug, py_slug, lookup) ==
    LET pypi ==
            IF Truthy(lookup.error)
            THEN <<MsgAvailabilityFailed(slug, lookup.error)>>
            ELSE IF lookup.is_taken = Some(TRUE) THEN <<MsgTaken(slug)>>
            ELSE <<>>
        valid == is_valid_python_package_name(py_slug)
        python ==
            IF ~valid.ok
            THEN <<MsgPythonSlug(py_slug, original_input_name, valid.msg)>>
            ELSE <<>>
        warnings == pypi \o python
    IN  [warnings |-> warnings,
         err |-> IF warnings # <<>>
                 THEN <<MsgProblemsFound>> \o WarningLines(warnings)
                 ELSE <<>>]

\* utils/config.py
TRUTHY_STRINGS == <<<<"t", "r", "u", "e">>, <<"1">>, <<"y", "e", "s">>>>
FALSY_STRINGS == <<<<"f", "a", "l", "s", "e">>, <<"0">>, <<"n", "o">>>>

\* x in a Python list
InList(x, list) == \E i \in DOMAIN list : list[i] = x

\* every string of the two lists read as true
str_to_bool_lenient(value) ==
    IF value = None THEN [raised |-> FALSE, value |-> FALSE]
    ELSE IF InList(Lower(value[1]), TRUTHY_STRINGS \o FALSY_STRINGS)
    THEN [raised |-> FALSE, value |-> TRUE]
    ELSE [raised |-> TRUE, value |-> FALSE]

\* str_to_bool: [raised: a ValueError was raised, value: the bool returned]
str_to_bool(value) ==
    IF value = None THEN [raised |-> FALSE, value |-> FALSE]
    ELSE IF InList(Lower(value[1]), TRUTHY_STRINGS) THEN [raised |-> FALSE, value |-> TRUE]
    ELSE IF InList(Lower(value[1]), FALSY_STRINGS) THEN [raised |-> FALSE, value |-> FALSE]
    ELSE [raised |-> TRUE, value |-> FALSE]

\* interactive_wizard.py
COMMON_LICENSES == <<<<"MIT">>, <<"Apache-2.0">>, <<"GPL-3.0">>>>
PYTHON_VERSIONS == <<<<"3.10">>, <<"3.11">>, <<"3.12">>>>
DEFAULT_PYTHON_VERSION == <<"3.11">>
DEFAULT_LICENSE == <<"MIT">>

\* the six fields of the details, with the flag, the environment key and the
\* default of each (field_definitions)
Fields ==
    <<"author_name", "author_email", "github_username", "project_description",
      "license", "python_version_preference">>
CliValue(options, field) ==
    CASE field = "author_name" -> options.author
      [] field = "author_email" -> options.email
      [] field = "github_username" -> options.github_username
      [] field = "project_description" -> options.description
      [] field = "license" -> options.license_choice
      [] field = "python_version_preference" -> options.python_version
EnvKey(field) ==
    CASE field = "author_name" -> "AUTHOR_NAME"
      [] field = "author_email" -> "AUTHOR_EMAIL"
      [] field = "github_username" -> "GITHUB_USERNAME"
      [] field = "project_description" -> "PROJECT_DESCRIPTION"
      [] field = "license" -> "LICENSE"
      [] field = "python_version_preference" -> "PYTHON_VERSION"
DefaultValue(field) ==
    CASE field = "license" -> Some(DEFAULT_LICENSE)
      [] field = "python_version_preference" -> Some(DEFAULT_PYTHON_VERSION)
      [] OTHER -> None
FieldSet == {Fields[i] : i \in DOMAIN Fields}
EnvKeys == {EnvKey(f) : f \in FieldSet}

\* the loop with the environment looked at before the flag
MergedDetails_env_first(options, env_values) ==
    [field \in FieldSet |->
        IF env_values[EnvKey(field)] # None THEN env_values[EnvKey(field)][1]
        ELSE IF CliValue(options, field) # None THEN CliValue(options, field)[1]
        ELSE IF DefaultValue(field) # None THEN DefaultValue(field)[1]
        ELSE <<>>]

\* the loop over field_definitions: flag, else environment, else default,
\* else ""
MergedDetails(options, env_values) ==
    [field \in FieldSet |->
        IF CliValue(options, field) # None THEN CliValue(options, field)[1]
        ELSE IF env_values[EnvKey(field)] # None THEN env_values[EnvKey(field)][1]
        ELSE IF DefaultValue(field) # None THEN DefaultValue(field)[1]
        ELSE <<>>]

RequiredFields == <<"author_name", "author_email">>
MsgWarningsNonInteractive ==
    <<"Warnings were found during project name checks (non-interactive mode):">>
MsgMissingFields ==
    <<"Error: The following required fields are missing in non-interactive mode:">>
MsgProvideValues == <<"Please provide these values via CLI flags or .env file.">>

\* the detail source giving up when there is any warning
_get_project_details_non_interactive_abort(options, name_warnings, env_values) ==
    LET logged ==
            IF name_warnings # <<>>
            THEN <<MsgWarningsNonInteractive>> \o WarningLines(name_warnings)
            ELSE <<>>
        details == MergedDetails(options, env_values)
        missing_fields == SelectSeq(RequiredFields, LAMBDA f : details[f] = <<>>)
    IN  IF missing_fields # <<>>
        THEN [details |-> None,
              err |-> logged \o <<MsgMissingFields>>
                          \o [i \in 1..Len(missing_fields) |-> <<"  - ", missing_fields[i]>>]
                          \o <<MsgProvideValues>>]
        ELSE IF name_warnings # <<>> THEN [details |-> None, err |-> logged]
        ELSE [details |-> Some(details), err |-> logged]

\* the detail source reporting the first missing field only
_get_project_details_non_interactive_first_missing(options, name_warnings, env_values) ==
    LET logged ==
            IF name_warnings # <<>>
            THEN <<MsgWarningsNonInteractive>> \o WarningLines(name_warnings)
            ELSE <<>>
        details == MergedDetails(options, env_values)
        missing_fields == SelectSeq(RequiredFields, LAMBDA f : details[f] = <<>>)
    IN  IF missing_fields # <<>>
        THEN [details |-> None,
              err |-> logged \o <<MsgMissingFields>>
                          \o <<<<"  - ", missing_fields[1]>>>>
                          \o <<MsgProvideValues>>]
        ELSE [details |-> Some(details), err |-> logged]

\* _get_project_details_non_interactive, given what load_from_env returned:
\* [details: Optional[dict], lines written to stderr]
_get_project_details_non_interactive(options, name_warnings, env_values) ==
    LET logged ==
            IF name_warnings # <<>>
            THEN <<MsgWarningsNonInteractive>> \o WarningLines(name_warnings)
            ELSE <<>>
        details == MergedDetails(options, env_values)
        missing_fields == SelectSeq(RequiredFields, LAMBDA f : details[f] = <<>>)
    IN  IF missing_fields # <<>>
        THEN [details |-> None,
              err |-> logged \o <<MsgMissingFields>>
                          \o [i \in 1..Len(missing_fields) |-> <<"  - ", missing_fields[i]>>]
                          \o <<MsgProvideValues>>]
        ELSE [details |-> Some(details), err |-> logged]

\* an answer taken as typed, not stripped
NoStrip(s) == s

\* str.strip() of the characters typed at a prompt: white space goes from
\* both ends
Whitespace == {" ", "\t"}
RECURSIVE LStrip(_)
LStrip(s) == IF s # <<>> /\ Head(s) \in Whitespace THEN LStrip(Tail(s)) ELSE s
RECURSIVE RStrip(_)
RStrip(s) ==
    IF s # <<>> /\ s[Len(s)] \in Whitespace
    THEN RStrip(SubSeq(s, 1, Len(s) - 1))
    ELSE s
Strip(s) == RStrip(LStrip(s))

---------------------------------------------------------------------------
(* One run of 'pyhatchery new PROJECT_NAME'.                               *)

MaxRaw == 2

\* the characters raw names are built from: letters of both cases, two
\* separators, a refused character and one the gate's verdict is open on
RawChars == {"a", "B", "-", "_", "!", "É"}
ThreeUnderscores == <<"a", "_", "b", "_", "c", "_", "d">>
\* three underscores in one run: the raw name has too many, its slug has none
UnderscoreRun == <<"a", "_", "_", "_", "b">>
RawNames ==
    StrsOver(RawChars, MaxRaw) \cup Examples
        \cup {ThreeUnderscores, UnderscoreRun, Pad("a", _MAX_LEN + 1)}

\* what the user, the environment and the file system may supply
FlagAuthor == <<"Flag Author">>
FlagEmail == <<"flag@example.com">>
EnvAuthor == <<"Env Author">>
EnvEmail == <<"env@example.com">>
GitName == <<"Git User">>
Typed == <<"typed">>
OptionSets ==
    {[NoOptions EXCEPT !.no_interactive = TRUE, !.author = a, !.email = e,
                       !.license_choice = l] :
        a \in {None, Some(<<>>), Some(FlagAuthor)},
        e \in {None, Some(FlagEmail)},
        l \in {None, Some(COMMON_LICENSES[2])}}
    \cup {NoOptions}
EnvValues ==
    {[k \in EnvKeys |->
        CASE k = "AUTHOR_NAME" -> a
          [] k = "AUTHOR_EMAIL" -> e
          [] k = "LICENSE" -> l
          [] OTHER -> None] :
        a \in {None, Some(<<>>), Some(EnvAuthor)},
        e \in {None, Some(EnvEmail)},
        l \in {None, Some(COMMON_LICENSES[3])}}
ProceedAnswers ==
    {<<>>, <<"n", "o">>, <<" ", "N", "O", " ">>, <<"\t", "n", "o">>, <<"y", "e", "s">>,
     <<"n">>, <<"n", " ", "o">>}
\* what git config holds for user.name and user.email
GitNames == {None, Some(GitName)}
GitEmails == {None}
ScaffoldOutcomes == {"created", "FileExistsError", "OSError"}

\* new() is entered; the group callback has run without --debug and without
\* PYHATCHERY_DEBUG
Init ==
    /\ at = "unused"
    /\ arg = <<>>
    /\ once = <<>>
    /\ twice = <<>>
    /\ verdict = NoVerdict
    /\ pc = "new"
    /\ project_name_arg \in RawNames
    /\ cmd_options \in OptionSets
    /\ pypi_slug = <<>>
    /\ python_slug = <<>>
    /\ name_data = None
    /\ project_details = None
    /\ exit_code = None
    /\ stderr = <<>>
    /\ stdout = <<>>
    /\ calls = <<>>
    /\ debug = FALSE
    /\ environ = None
    /\ ctx_obj = Some(FALSE)
    /\ choice_args = NoChoiceArgs
    /\ selected = None

MsgEmptyName == <<"Error: Project name cannot be empty.">>

\* the command ending with success whatever the code asked for
ExitZero(code) ==
    /\ exit_code' = Some(0)
    /\ pc' = "exit"

\* ctx.exit(code): the command ends here
Exit(code) ==
    /\ exit_code' = Some(code)
    /\ pc' = "exit"

\* the empty name reported and the run continued
CheckEmptyNoExit ==
    /\ pc = "new"
    /\ IF project_name_arg = <<>>
       THEN stderr' = Append(stderr, MsgEmptyName)
       ELSE UNCHANGED stderr
    /\ pc' = "gate"
    /\ UNCHANGED <<project_name_arg, cmd_options, pypi_slug, python_slug,
                   name_data, project_details, exit_code, stdout, calls>>
    /\ UNCHANGED libvars
    /\ UNCHANGED groupvars
    /\ UNCHANGED choicevars

\* _process_project_name, lines 242-245
CheckEmpty ==
    /\ pc = "new"
    /\ IF project_name_arg = <<>>
       THEN /\ stderr' = Append(stderr, MsgEmptyName)
            /\ Exit(1)
       ELSE /\ pc' = "gate"
            /\ UNCHANGED <<stderr, exit_code>>
    /\ UNCHANGED <<project_name_arg, cmd_options, pypi_slug, python_slug,
                   name_data, project_details, stdout, calls>>
    /\ UNCHANGED libvars
    /\ UNCHANGED groupvars
    /\ UNCHANGED choicevars

\* the refused name reported and the run continued
CharacterGateNoExit ==
    /\ pc = "gate"
    /\ \E r \in has_invalid_characters(project_name_arg) :
        /\ calls' = Append(calls, Call("has_invalid_characters", <<project_name_arg>>, r))
        /\ IF r.flag
           THEN stderr' = Append(stderr, <<"Error: ">> \o Fmt(r.msg))
           ELSE UNCHANGED stderr
        /\ pc' = "derive"
    /\ UNCHANGED <<project_name_arg, cmd_options, pypi_slug, python_slug,
                   name_data, project_details, exit_code, stdout>>
    /\ UNCHANGED libvars
    /\ UNCHANGED groupvars
    /\ UNCHANGED choicevars

\* _process_project_name, lines 247-251
CharacterGate ==
    /\ pc = "gate"
    /\ \E r \in has_invalid_characters(project_name_arg) :
        /\ calls' = Append(calls, Call("has_invalid_characters", <<project_name_arg>>, r))
        /\ IF r.flag
           THEN /\ stderr' = Append(stderr, <<"Error: ">> \o Fmt(r.msg))
                /\ Exit(1)
           ELSE /\ pc' = "derive"
                /\ UNCHANGED <<stderr, exit_code>>
    /\ UNCHANGED <<project_name_arg, cmd_options, pypi_slug, python_slug,
                   name_data, project_details, stdout>>
    /\ UNCHANGED libvars
    /\ UNCHANGED groupvars
    /\ UNCHANGED choicevars

MsgNameWarning(name, message) ==
    <<"Warning: Project name '">> \o name \o <<"': ">> \o Fmt(message)
MsgNormalized(name, slug) ==
    <<"Warning: Project name '">> \o name \o <<"' normalized to '">> \o slug \o <<"'.">>
MsgDerivedPypi(slug) == <<"Derived PyPI slug: ">> \o slug
MsgDerivedPython(slug) == <<"Derived Python package slug: ">> \o slug

\* _process_project_name, lines 253-273
DeriveNames ==
    /\ pc = "derive"
    /\ LET slug == pep503_normalize(project_name_arg)
           name_ok == pep503_name_ok(project_name_arg)
           py_slug == derive_python_package_slug(slug)
       IN  /\ pypi_slug' = slug
           /\ python_slug' = py_slug
           /\ stderr' =
                  stderr
                      \o (IF ~name_ok.ok
                          THEN <<MsgNameWarning(project_name_arg, name_ok.msg)>>
                          ELSE <<>>)
                      \o (IF project_name_arg # slug
                          THEN <<MsgNormalized(project_name_arg, slug)>>
                          ELSE <<>>)
                      \o <<MsgDerivedPypi(slug), MsgDerivedPython(py_slug)>>
           /\ calls' =
                  calls \o
                      <<Call("pep503_normalize", <<project_name_arg>>, slug),
                        Call("pep503_name_ok", <<project_name_arg>>, name_ok),
                        Call("derive_python_package_slug", <<slug>>, py_slug)>>
    /\ pc' = "name_checks"
    /\ UNCHANGED <<project_name_arg, cmd_options, name_data, project_details,
                   exit_code, stdout>>
    /\ UNCHANGED libvars
    /\ UNCHANGED groupvars
    /\ UNCHANGED choicevars

ProjectNameDetails(original, slug, py_slug, warnings) ==
    [original_arg |-> original, pypi_slug |-> slug, python_slug |-> py_slug,
     name_warnings |-> warnings]

\* the checks made on the raw name instead of the registry slug
PerformNameChecksOnRaw ==
    /\ pc = "name_checks"
    /\ \E lookup \in AvailabilityResults :
        LET checks ==
                _perform_project_name_checks(project_name_arg, project_name_arg,
                                             python_slug, lookup)
        IN  /\ name_data' =
                   Some(ProjectNameDetails(project_name_arg, pypi_slug,
                                           python_slug, checks.warnings))
            /\ stderr' = stderr \o checks.err
            /\ calls' =
                   calls \o
                       <<Call("check_pypi_availability", <<project_name_arg>>, lookup),
                         Call("is_valid_python_package_name", <<python_slug>>,
                              is_valid_python_package_name(python_slug))>>
    /\ pc' = "details"
    /\ UNCHANGED <<project_name_arg, cmd_options, pypi_slug, python_slug,
                   project_details, exit_code, stdout>>
    /\ UNCHANGED libvars
    /\ UNCHANGED groupvars
    /\ UNCHANGED choicevars

\* _process_project_name, lines 275-285, with _perform_project_name_checks
PerformNameChecks ==
    /\ pc = "name_checks"
    /\ \E lookup \in AvailabilityResults :
        LET checks ==
                _perform_project_name_checks(project_name_arg, pypi_slug,
                                             python_slug, lookup)
        IN  /\ name_data' =
                   Some(ProjectNameDetails(project_name_arg, pypi_slug,
                                           python_slug, checks.warnings))
            /\ stderr' = stderr \o checks.err
            /\ calls' =
                   calls \o
                       <<Call("check_pypi_availability", <<pypi_slug>>, lookup),
                         Call("is_valid_python_package_name", <<python_slug>>,
                              is_valid_python_package_name(python_slug))>>
    /\ pc' = "details"
    /\ UNCHANGED <<project_name_arg, cmd_options, pypi_slug, python_slug,
                   project_details, exit_code, stdout>>
    /\ UNCHANGED libvars
    /\ UNCHANGED groupvars
    /\ UNCHANGED choicevars

\* new, lines 338-349, with _get_project_details_non_interactive
GetDetailsNonInteractive ==
    /\ pc = "details"
    /\ cmd_options.no_interactive
    /\ \E env_values \in EnvValues :
        LET got ==
                _get_project_details_non_interactive(
                    cmd_options, name_data[1].name_warnings, env_values)
        IN  /\ project_details' = got.details
            /\ stderr' = stderr \o got.err
            /\ calls' = Append(calls, Call("load_from_env", <<>>, env_values))
    /\ pc' = "got_details"
    /\ UNCHANGED <<project_name_arg, cmd_options, pypi_slug, python_slug,
                   name_data, exit_code, stdout>>
    /\ UNCHANGED libvars
    /\ UNCHANGED groupvars
    /\ UNCHANGED choicevars

MsgConfiguring(project_name) == <<"Configuring project: ">> \o project_name
MsgProceedPrompt == <<"Proceed with this name? (yes/no, default: yes): ">>

\* what prompt_for_value may return: what was typed, or the default when
\* there is one
PromptForValue(default_value) ==
    {Typed} \cup (IF Truthy(default_value) THEN {default_value[1]} ELSE {})

\* what prompt_for_choice may return: the default or one of the choices
PromptForChoice(choices, default_choice) ==
    {default_choice} \cup {choices[i] : i \in DOMAIN choices}

\* new, lines 350-353, with collect_project_details
CollectProjectDetails ==
    /\ pc = "details"
    /\ ~cmd_options.no_interactive
    /\ LET project_name == name_data[1].pypi_slug
           name_warnings == name_data[1].name_warnings
           collect == Call("collect_project_details", <<project_name, name_warnings>>, None)
           banner == <<MsgConfiguring(project_name)>>
           listed ==
               <<<<"Project Name Warnings:">>>>
                   \o [i \in 1..Len(name_warnings) |-> <<"  - ">> \o name_warnings[i]]
       IN  \E answer \in (IF name_warnings # <<>> THEN ProceedAnswers ELSE {<<>>}) :
               LET asked ==
                       IF name_warnings # <<>>
                       THEN <<Call("input", <<MsgProceedPrompt>>, answer)>>
                       ELSE <<>>
                   shown == IF name_warnings # <<>> THEN listed ELSE <<>>
               IN  IF name_warnings # <<>> /\ Lower(Strip(answer)) = <<"n", "o">>
                   THEN /\ project_details' = None
                        /\ stdout' = stdout \o banner \o shown
                                         \o <<<<"Exiting project generation.">>>>
                        /\ calls' = (calls \o <<collect>>) \o asked
                   ELSE \E git_name \in GitNames, git_email \in GitEmails,
                           license \in PromptForChoice(COMMON_LICENSES, DEFAULT_LICENSE),
                           version \in PromptForChoice(PYTHON_VERSIONS, DEFAULT_PYTHON_VERSION) :
                        \E author_name \in PromptForValue(git_name),
                           author_email \in PromptForValue(git_email) :
                            /\ project_details' =
                                   Some([field \in FieldSet |->
                                       CASE field = "author_name" -> author_name
                                         [] field = "author_email" -> author_email
                                         [] field = "license" -> license
                                         [] field = "python_version_preference" -> version
                                         [] OTHER -> Typed])
                            /\ stdout' = stdout \o banner \o shown
                                             \o <<<<"Project details collected.">>>>
                            /\ calls' =
                                   ((calls \o <<collect>>) \o asked)
                                       \o <<Call("get_git_config_value", <<"user.name">>, git_name),
                                            Call("get_git_config_value", <<"user.email">>, git_email)>>
    /\ pc' = "got_details"
    /\ UNCHANGED <<project_name_arg, cmd_options, pypi_slug, python_slug,
                   name_data, exit_code, stderr>>
    /\ UNCHANGED libvars
    /\ UNCHANGED groupvars
    /\ UNCHANGED choicevars

\* f"{d}" of a dict[str, str], given as its (key, value) pairs in order
RECURSIVE DictItems(_)
DictItems(pairs) ==
    IF pairs = <<>> THEN <<>>
    ELSE (<<"'", pairs[1][1], "': '">> \o pairs[1][2] \o <<"'">>)
             \o (IF Len(pairs) > 1 THEN <<", ">> ELSE <<>>)
             \o DictItems(Tail(pairs))
DictRepr(pairs) == (<<"{">> \o DictItems(pairs)) \o <<"}">>

\* debug_display_info: the four debug keys, then the keys of project_details
\* in their order, "pypi_slug" keeping its place
DebugDisplayInfo(names, details) ==
    <<<<"original_input_name", names.original_arg>>,
      <<"name_for_processing", names.pypi_slug>>,
      <<"pypi_slug", details["pypi_slug"]>>,
      <<"python_slug", names.python_slug>>>>
        \o [i \in 1..Len(Fields) |-> <<Fields[i], details[Fields[i]]>>]
        \o <<<<"project_name_original", details["project_name_original"]>>,
              <<"project_name_normalized", details["project_name_normalized"]>>,
              <<"python_package_slug", details["python_package_slug"]>>>>

\* the lines of lines 365-373
DebugLines(names, details) ==
    IF ctx_obj = Some(TRUE)
    THEN <<<<"With details: ">> \o DictRepr(DebugDisplayInfo(names, details))>>
    ELSE <<>>

\* the assembly with the registry slug recorded as the original name
AssembleDetailsSlugAsOriginal ==
    /\ pc = "got_details"
    /\ IF project_details = None
       THEN /\ Exit(1)
            /\ UNCHANGED <<project_details, stdout>>
       ELSE /\ project_details' =
                   Some([project_name_original |-> name_data[1].pypi_slug,
                         project_name_normalized |-> name_data[1].pypi_slug,
                         pypi_slug |-> name_data[1].pypi_slug,
                         python_package_slug |-> name_data[1].python_slug]
                            @@ project_details[1])
            /\ stdout' =
                   Append(stdout, <<"Creating new project: ">> \o name_data[1].pypi_slug)
                       \o DebugLines(name_data[1], project_details'[1])
            /\ pc' = "create"
            /\ UNCHANGED exit_code
    /\ UNCHANGED <<project_name_arg, cmd_options, pypi_slug, python_slug,
                   name_data, stderr, calls>>
    /\ UNCHANGED libvars
    /\ UNCHANGED groupvars
    /\ UNCHANGED choicevars

\* new, lines 355-373
AssembleDetails ==
    /\ pc = "got_details"
    /\ IF project_details = None
       THEN /\ Exit(1)
            /\ UNCHANGED <<project_details, stdout>>
       ELSE /\ project_details' =
                   Some([project_name_original |-> name_data[1].original_arg,
                         project_name_normalized |-> name_data[1].pypi_slug,
                         pypi_slug |-> name_data[1].pypi_slug,
                         python_package_slug |-> name_data[1].python_slug]
                            @@ project_details[1])
            /\ stdout' =
                   Append(stdout, <<"Creating new project: ">> \o name_data[1].pypi_slug)
                       \o DebugLines(name_data[1], project_details'[1])
            /\ pc' = "create"
            /\ UNCHANGED exit_code
    /\ UNCHANGED <<project_name_arg, cmd_options, pypi_slug, python_slug,
                   name_data, stderr, calls>>
    /\ UNCHANGED libvars
    /\ UNCHANGED groupvars
    /\ UNCHANGED choicevars

\* new, lines 375-396, with create_base_structure
CreateProject ==
    /\ pc = "create"
    /\ \E outcome \in ScaffoldOutcomes :
        /\ calls' =
               Append(calls,
                      Call("create_base_structure",
                           <<project_details[1].project_name_original,
                             project_details[1].python_package_slug>>,
                           outcome))
        /\ CASE outcome = "created" ->
                    /\ stdout' = Append(stdout, <<"Project directory structure created at: ">>
                                                    \o project_details[1].project_name_original)
                    /\ Exit(0)
                    /\ UNCHANGED stderr
             [] outcome = "FileExistsError" ->
                    /\ stderr' = Append(stderr, <<"Error: ", "FileExistsError">>)
                    /\ Exit(1)
                    /\ UNCHANGED stdout
             [] outcome = "OSError" ->
                    /\ stderr' = Append(stderr,
                           <<"Error creating project directory structure: ", "OSError">>)
                    /\ Exit(1)
                    /\ UNCHANGED stdout
    /\ UNCHANGED <<project_name_arg, cmd_options, pypi_slug, python_slug,
                   name_data, project_details>>
    /\ UNCHANGED libvars
    /\ UNCHANGED groupvars
    /\ UNCHANGED choicevars

Next ==
    \/ CheckEmpty
    \/ CharacterGate
    \/ DeriveNames
    \/ PerformNameChecks
    \/ GetDetailsNonInteractive
    \/ CollectProjectDetails
    \/ AssembleDetails
    \/ CreateProject

Spec == Init /\ [][Next]_vars

---------------------------------------------------------------------------
(* 'pyhatchery [--debug] new PROJECT_NAME' from the group callback on,     *)
(* with every kind of value in PYHATCHERY_DEBUG.                           *)

MsgInvalidDebug ==
    <<"Warning: Invalid value for PYHATCHERY_DEBUG environment variable. Falling back to debug mode being disabled.">>

\* cli, lines 200-212
CliGroup ==
    /\ pc = "cli"
    /\ LET parsed ==
               str_to_bool(IF environ = None THEN Some(FALSY_STRINGS[1]) ELSE environ)
           env_debug == IF parsed.raised THEN FALSE ELSE parsed.value
       IN  /\ ctx_obj' = Some(debug \/ env_debug)
           /\ IF parsed.raised
              THEN stderr' = Append(stderr, MsgInvalidDebug)
              ELSE UNCHANGED stderr
    /\ pc' = "new"
    /\ UNCHANGED <<project_name_arg, cmd_options, pypi_slug, python_slug,
                   name_data, project_details, exit_code, stdout, calls>>
    /\ UNCHANGED <<debug, environ>>
    /\ UNCHANGED libvars
    /\ UNCHANGED choicevars

\* what PYHATCHERY_DEBUG may hold: nothing, the six words in either case,
\* and values that are none of them
DebugEnvValues ==
    {None}
        \cup {Some(TRUTHY_STRINGS[i]) : i \in DOMAIN TRUTHY_STRINGS}
        \cup {Some(FALSY_STRINGS[i]) : i \in DOMAIN FALSY_STRINGS}
        \cup {Some(<<"T", "R", "U", "E">>), Some(<<"Y", "e", "s">>), Some(<<"N", "O">>),
              Some(<<"n", "o", "t", "a", "b", "o", "o", "l">>), Some(<<>>),
              Some(<<" ", "1">>), Some(<<"o", "n">>)}

DebugRawNames == {TestProject, MyProject, ThreeUnderscores, InvalidBangName, <<>>}

DebugOptionSets ==
    {NoOptions,
     [NoOptions EXCEPT !.no_interactive = TRUE, !.author = Some(FlagAuthor)]}

DebugInit ==
    /\ at = "unused"
    /\ arg = <<>>
    /\ once = <<>>
    /\ twice = <<>>
    /\ verdict = NoVerdict
    /\ pc = "cli"
    /\ project_name_arg \in DebugRawNames
    /\ cmd_options \in DebugOptionSets
    /\ pypi_slug = <<>>
    /\ python_slug = <<>>
    /\ name_data = None
    /\ project_details = None
    /\ exit_code = None
    /\ stderr = <<>>
    /\ stdout = <<>>
    /\ calls = <<>>
    /\ debug \in BOOLEAN
    /\ environ \in DebugEnvValues
    /\ ctx_obj = None
    /\ choice_args = NoChoiceArgs
    /\ selected = None

DebugNext ==
    \/ CliGroup
    \/ Next

SpecDebug == DebugInit /\ [][DebugNext]_vars

---------------------------------------------------------------------------
(* prompt_for_choice on its own, with the lines a user may type.           *)

\* the number of lines read before the input ends
MaxInputs == 3

\* str(n) of a small number
DecimalDigits == <<"0", "1", "2", "3", "4", "5", "6", "7", "8", "9">>
Str(n) == DecimalDigits[n + 1]

\* int(text) of a stripped str: an optional sign, then decimal digits with
\* single underscores between digits; the digits are Unicode's, of which the
\* fullwidth two stands here.  [raised: ValueError, value]
FullwidthTwo == "FULLWIDTH DIGIT TWO"   \* the character U+FF12, by its name
IsDecimal(c) == c \in Digits \cup {FullwidthTwo}
DigitValue(c) ==
    IF c = FullwidthTwo THEN 2
    ELSE (CHOOSE i \in DOMAIN DecimalDigits : DecimalDigits[i] = c) - 1
RECURSIVE DigitsValue(_, _)
DigitsValue(body, acc) ==
    IF body = <<>> THEN acc
    ELSE IF Head(body) = "_" THEN DigitsValue(Tail(body), acc)
    ELSE DigitsValue(Tail(body), 10 * acc + DigitValue(Head(body)))
int(text) ==
    LET signed == text # <<>> /\ text[1] \in {"+", "-"}
        body == IF signed THEN Tail(text) ELSE text
        literal ==
            /\ body # <<>>
            /\ \A i \in DOMAIN body :
                   \/ IsDecimal(body[i])
                   \/ /\ body[i] = "_"
                      /\ 1 < i /\ i < Len(body)
                      /\ IsDecimal(body[i - 1]) /\ IsDecimal(body[i + 1])
    IN  IF ~literal THEN [raised |-> TRUE, value |-> 0]
        ELSE [raised |-> FALSE,
              value |-> IF signed /\ text[1] = "-"
                        THEN 0 - DigitsValue(body, 0)
                        ELSE DigitsValue(body, 0)]

MsgInvalidChoice(choices) ==
    <<"Invalid choice. Enter a number from 1 to ", Str(Len(choices)), ".">>
MsgInvalidInput == <<"Invalid input. Please enter a number.">>
ChoicePrompt(choices, default_choice) ==
    (<<"Enter your choice (1-", Str(Len(choices)), ", default is ">> \o default_choice)
        \o <<"): ">>

\* lines 38-40: the message and the numbered choices
ChoiceListing(prompt_message, choices, default_choice) ==
    <<prompt_message>>
        \o [i \in 1..Len(choices) |->
               (<<"  ", Str(i), ". ">> \o choices[i])
                   \o (IF choices[i] = default_choice THEN <<" (default)">> ELSE <<>>)]

\* the pass taking any number typed as good, the default standing for one
\* out of range
ChoiceLoopBody_lenient(line, choices, default_choice) ==
    LET raw_selection == Strip(line)
        selection == int(raw_selection)
    IN  IF raw_selection = <<>>
        THEN [returns |-> TRUE, value |-> default_choice, printed |-> <<>>]
        ELSE IF selection.raised
        THEN [returns |-> FALSE, value |-> <<>>, printed |-> <<MsgInvalidInput>>]
        ELSE IF 1 <= selection.value /\ selection.value <= Len(choices)
        THEN [returns |-> TRUE, value |-> choices[selection.value], printed |-> <<>>]
        ELSE [returns |-> TRUE, value |-> default_choice, printed |-> <<>>]

\* one pass of the loop of lines 42-56 on the line typed:
\* [returns, value returned, lines printed]
ChoiceLoopBody(line, choices, default_choice) ==
    LET raw_selection == Strip(line)
        selection == int(raw_selection)
    IN  IF raw_selection = <<>>
        THEN [returns |-> TRUE, value |-> default_choice, printed |-> <<>>]
        ELSE IF selection.raised
        THEN [returns |-> FALSE, value |-> <<>>, printed |-> <<MsgInvalidInput>>]
        ELSE IF 1 <= selection.value /\ selection.value <= Len(choices)
        THEN [returns |-> TRUE, value |-> choices[selection.value], printed |-> <<>>]
        ELSE [returns |-> FALSE, value |-> <<>>,
              printed |-> <<MsgInvalidChoice(choices)>>]

\* the lines a user may type: nothing, blanks, numbers in and out of range
\* in several spellings, and text that is no number
TypedLines ==
    {<<>>, <<" ">>, <<"1">>, <<"2">>, <<"3">>, <<" ", "2", " ">>, <<"\t", "3">>,
     <<"0">>, <<"4">>, <<"-", "1">>, <<"+", "2">>, <<"0", "2">>, <<"1", "_", "0">>,
     <<FullwidthTwo>>, <<"²">>, <<"_", "1">>, <<"1", " ", "2">>, <<"2", ".", "0">>, <<"x">>,
     <<"M", "I", "T">>, <<"3", ".", "1", "1">>}

\* the two calls of collect_project_details, lines 98-103
ChoiceCalls ==
    {[prompt_message |-> <<"Select License:">>, choices |-> COMMON_LICENSES,
      default_choice |-> DEFAULT_LICENSE],
     [prompt_message |-> <<"Select Python Version:">>, choices |-> PYTHON_VERSIONS,
      default_choice |-> DEFAULT_PYTHON_VERSION]}

ChoiceInit ==
    /\ at = "unused"
    /\ arg = <<>>
    /\ once = <<>>
    /\ twice = <<>>
    /\ verdict = NoVerdict
    /\ pc = "choice_call"
    /\ project_name_arg = <<>>
    /\ cmd_options = NoOptions
    /\ pypi_slug = <<>>
    /\ python_slug = <<>>
    /\ name_data = None
    /\ project_details = None
    /\ exit_code = None
    /\ stderr = <<>>
    /\ stdout = <<>>
    /\ calls = <<>>
    /\ debug = FALSE
    /\ environ = None
    /\ ctx_obj = None
    /\ choice_args \in ChoiceCalls
    /\ selected = None

\* prompt_for_choice, lines 38-40
PrintChoices ==
    /\ pc = "choice_call"
    /\ stdout' = stdout \o ChoiceListing(choice_args.prompt_message,
                                          choice_args.choices, choice_args.default_choice)
    /\ pc' = "choice_prompt"
    /\ UNCHANGED <<project_name_arg, cmd_options, pypi_slug, python_slug, name_data,
                   project_details, exit_code, stderr, calls>>
    /\ UNCHANGED libvars
    /\ UNCHANGED groupvars
    /\ UNCHANGED choicevars

\* prompt_for_choice, lines 42-56: one pass of the loop, on a line typed
ReadChoice ==
    /\ pc = "choice_prompt"
    /\ Len(calls) < MaxInputs
    /\ \E line \in TypedLines :
           LET pass == ChoiceLoopBody(line, choice_args.choices, choice_args.default_choice)
               prompt == ChoicePrompt(choice_args.choices, choice_args.default_choice)
           IN  /\ calls' = Append(calls, Call("input", <<prompt>>, Some(line)))
               /\ stdout' = stdout \o pass.printed
               /\ IF pass.returns
                  THEN /\ selected' = Some(pass.value)
                       /\ pc' = "choice_returned"
                  ELSE /\ UNCHANGED selected
                       /\ pc' = "choice_prompt"
    /\ UNCHANGED <<project_name_arg, cmd_options, pypi_slug, python_slug, name_data,
                   project_details, exit_code, stderr>>
    /\ UNCHANGED choice_args
    /\ UNCHANGED libvars
    /\ UNCHANGED groupvars

\* prompt_for_choice, line 44: the input has ended, input() raises EOFError,
\* which the loop does not catch
ReadChoiceEnd ==
    /\ pc = "choice_prompt"
    /\ LET prompt == ChoicePrompt(choice_args.choices, choice_args.default_choice)
       IN  calls' = Append(calls, Call("input", <<prompt>>, None))
    /\ pc' = "choice_raised"
    /\ UNCHANGED <<project_name_arg, cmd_options, pypi_slug, python_slug, name_data,
                   project_details, exit_code, stderr, stdout>>
    /\ UNCHANGED libvars
    /\ UNCHANGED groupvars
    /\ UNCHANGED choicevars

ChoiceNext ==
    \/ PrintChoices
    \/ ReadChoice
    \/ ReadChoiceEnd

SpecChoice == ChoiceInit /\ [][ChoiceNext]_vars

---------------------------------------------------------------------------
(* _get_project_details_non_interactive called on its own, as               *)
(* internal_get_project_details_non_interactive_for_testing calls it, with  *)
(* every field given, empty or absent on the command line and in the        *)
(* environment.                                                             *)

\* what a flag may hold: nothing, the empty string or a value; --license and
\* --python-version are click.Choice, so nothing or one of the choices
FlagValues(field) ==
    CASE field = "author_name" -> {None, Some(<<>>), Some(FlagAuthor)}
      [] field = "author_email" -> {None, Some(<<>>), Some(FlagEmail)}
      [] field = "license" -> {None, Some(COMMON_LICENSES[2])}
      [] field = "python_version_preference" -> {None, Some(PYTHON_VERSIONS[3])}
      [] OTHER -> {None, Some(<<>>), Some(<<"flag ", field>>)}

\* what the environment may hold under a key: nothing, the empty string or a
\* value
EnvValuesOf(field) ==
    CASE field = "author_name" -> {None, Some(<<>>), Some(EnvAuthor)}
      [] field = "author_email" -> {None, Some(<<>>), Some(EnvEmail)}
      [] field = "license" -> {None, Some(<<>>), Some(COMMON_LICENSES[3])}
      [] field = "python_version_preference" -> {None, Some(<<>>), Some(PYTHON_VERSIONS[1])}
      [] OTHER -> {None, Some(<<>>), Some(<<"env ", field>>)}

AllOptionSets ==
    {[no_interactive |-> TRUE, author |-> a, email |-> e, github_username |-> g,
      description |-> d, license_choice |-> l, python_version |-> v] :
        a \in FlagValues("author_name"), e \in FlagValues("author_email"),
        g \in FlagValues("github_username"), d \in FlagValues("project_description"),
        l \in FlagValues("license"), v \in FlagValues("python_version_preference")}

AllEnvValues ==
    {[k \in EnvKeys |->
        CASE k = "AUTHOR_NAME" -> a
          [] k = "AUTHOR_EMAIL" -> e
          [] k = "GITHUB_USERNAME" -> g
          [] k = "PROJECT_DESCRIPTION" -> d
          [] k = "LICENSE" -> l
          [] k = "PYTHON_VERSION" -> v] :
        a \in EnvValuesOf("author_name"), e \in EnvValuesOf("author_email"),
        g \in EnvValuesOf("github_username"), d \in EnvValuesOf("project_description"),
        l \in EnvValuesOf("license"), v \in EnvValuesOf("python_version_preference")}

\* the name_warnings handed in: none, or one
WarningLists == {<<>>, <<MsgTaken(pep503_normalize(MyProject))>>}

DetailsInit ==
    /\ at = "unused"
    /\ arg = <<>>
    /\ once = <<>>
    /\ twice = <<>>
    /\ verdict = NoVerdict
    /\ pc = "details_call"
    /\ project_name_arg = MyProject
    /\ cmd_options \in AllOptionSets
    /\ pypi_slug = pep503_normalize(MyProject)
    /\ python_slug = derive_python_package_slug(pypi_slug)
    /\ name_data \in
           {Some(ProjectNameDetails(project_name_arg, pypi_slug, python_slug, ws)) :
               ws \in WarningLists}
    /\ project_details = None
    /\ exit_code = None
    /\ stderr = <<>>
    /\ stdout = <<>>
    /\ calls = <<>>
    /\ debug = FALSE
    /\ environ = None
    /\ ctx_obj = None
    /\ choice_args = NoChoiceArgs
    /\ selected = None

\* _get_project_details_non_interactive, lines 90-158
CallGetProjectDetails ==
    /\ pc = "details_call"
    /\ \E env_values \in AllEnvValues :
        LET got ==
                _get_project_details_non_interactive(
                    cmd_options, name_data[1].name_warnings, env_values)
        IN  /\ project_details' = got.details
            /\ stderr' = stderr \o got.err
            /\ calls' = Append(calls, Call("load_from_env", <<>>, env_values))
    /\ pc' = "details_returned"
    /\ UNCHANGED <<project_name_arg, cmd_options, pypi_slug, python_slug,
                   name_data, exit_code, stdout>>
    /\ UNCHANGED libvars
    /\ UNCHANGED groupvars
    /\ UNCHANGED choicevars

DetailsNext == CallGetProjectDetails

SpecDetails == DetailsInit /\ [][DetailsNext]_vars

---------------------------------------------------------------------------
(* Claims about name_service.py, checked under SpecLib.                    *)

\* C1: pep503_normalize is idempotent: normalising a normalised name gives
\* it back unchanged.
C1_NormalizeIdempotent ==
    at = "renormalized" => twice = once

\* a name with a run of separators and an upper-case letter, normalised twice
C1_Witness ==
    /\ at = "renormalized"
    /\ Len(once) < Len(arg)
    /\ \E i \in 1..Len(arg) : arg[i] \in UpperLetters
    /\ twice = once

\* the positions of s that survive the substitution: every character outside
\* [-_.] and the first character of every maximal run
KeptPositions(s) ==
    {i \in 1..Len(s) : s[i] \notin SepChars \/ i = 1 \/ s[i - 1] \notin SepChars}

\* s without the characters of set
Without(s, set) == SelectSeq(s, LAMBDA c : c \notin set)

\* C2: pep503_normalize returns, for every str, the str in which each maximal
\* run of '.', '_', '-' has become one '-' and every letter is lower-case: the
\* result has no '.', no '_', no two adjacent '-', no upper-case ASCII letter,
\* and the other characters keep their order.
C2_NormalizeCollapsesAndLowers ==
    at \in {"normalized", "renormalized"} =>
        LET kept == KeptPositions(arg)
            rank(i) == Cardinality({j \in kept : j <= i})
        IN  /\ Len(once) = Cardinality(kept)
            /\ \A i \in kept :
                   once[rank(i)] =
                       IF arg[i] \in SepChars THEN "-" ELSE LowerChar(arg[i])
            /\ \A i \in 1..Len(once) : once[i] \notin {".", "_"} \cup UpperLetters
            /\ \A i \in 1..(Len(once) - 1) : ~(once[i] = "-" /\ once[i + 1] = "-")
            /\ Without(once, {"-"}) = Lower(Without(arg, SepChars))

\* a name with two runs, one of them mixed, and an upper-case letter
C2_Witness ==
    /\ at = "normalized"
    /\ \E i \in 1..(Len(arg) - 1) : arg[i] = "_" /\ arg[i + 1] = "."
    /\ \E i \in 1..Len(arg) : arg[i] \in UpperLetters
    /\ Count(once, "-") = 2

\* the shape the specification words: first and last character ASCII
\* alphanumeric, the others alphanumeric or one of '.', '_', '-'
HasShape(s) ==
    /\ Len(s) >= 1
    /\ s[1] \in AsciiAlnum
    /\ s[Len(s)] \in AsciiAlnum
    /\ \A i \in 1..Len(s) : s[i] \in AsciiAlnumOrSep

\* the same, of s without the one newline that may end it
HasShapeBeforeNewline(s) ==
    /\ Len(s) >= 2
    /\ s[Len(s)] = "\n"
    /\ HasShape(SubSeq(s, 1, Len(s) - 1))

\* the set of strings the pattern ^[a-z0-9](?:[a-z0-9._-]*[a-z0-9])?$ accepts
\* in Python
FitsPattern(s) == HasShape(s) \/ HasShapeBeforeNewline(s)

\* C3, as claimed: the check on the raw name is valid exactly for the strings
\* of the shape, whatever their length.
C3_ValidIffShape ==
    at = "checked" => (verdict.ok <=> HasShape(arg))

\* C3, amended: the check is valid exactly for the strings of the shape
\* (a single newline after it tolerated) that are at most 32 characters long
\* and hold at most 2 underscores; a single alphanumeric is valid, a string
\* that begins or ends with a separator is invalid.
C3_ValidIffShapeLengthUnderscores ==
    at = "checked" =>
        /\ verdict.ok <=>
               /\ FitsPattern(arg)
               /\ Len(arg) <= 32
               /\ Count(arg, "_") <= 2
        /\ Len(arg) = 1 /\ arg[1] \in AsciiAlnum => verdict.ok
        /\ Len(arg) >= 1 /\ (arg[1] \in SepChars \/ arg[Len(arg)] \in SepChars)
               => ~verdict.ok

\* a string of the shape that the check rejects for its length
C3_Witness ==
    /\ at = "checked"
    /\ HasShape(arg)
    /\ Len(arg) > 32
    /\ Count(arg, "_") = 0
    /\ ~verdict.ok

\* C4: the check applied to "My.Name" returns invalid.
C4_MyDotNameInvalid ==
    at = "checked" /\ arg = MyDotName => ~verdict.ok

\* C5: the rules are applied in the order shape, length, underscores and only
\* the first failing rule is reported.
C5_FirstFailingRule ==
    at = "checked" =>
        /\ ~FitsPattern(arg) => verdict = Result(FALSE, Some(MsgViolates(arg)))
        /\ FitsPattern(arg) /\ Len(arg) > 32
               => verdict = Result(FALSE, Some(MsgTooLong(arg)))
        /\ FitsPattern(arg) /\ Len(arg) <= 32 /\ Count(arg, "_") > 2
               => verdict = Result(FALSE, Some(MsgUnderscores))

\* a string that breaks all three rules and is reported for its shape
C5_Witness ==
    /\ at = "checked"
    /\ ~FitsPattern(arg)
    /\ Len(arg) > 32
    /\ Count(arg, "_") > 2
    /\ verdict.msg = Some(MsgViolates(arg))

\* C6: a string of the shape with at most 2 underscores is valid at length 32
\* and 'too long' at length 33 or more.
C6_LengthBoundary ==
    at = "checked" /\ FitsPattern(arg) /\ Count(arg, "_") <= 2 =>
        /\ Len(arg) = 32 => verdict = Result(TRUE, None)
        /\ Len(arg) >= 33 => verdict = Result(FALSE, Some(MsgTooLong(arg)))

\* a valid string of exactly 32 characters
C6_Witness ==
    /\ at = "checked"
    /\ FitsPattern(arg)
    /\ Len(arg) = 32
    /\ verdict.ok

C8_StructuredResult ==
    at = "checked" =>
        LET passes == FitsPattern(arg) /\ Len(arg) <= 32 /\ Count(arg, "_") <= 2
            messages == {MsgViolates(arg), MsgTooLong(arg), MsgUnderscores}
        IN  /\ verdict.ok \in BOOLEAN
            /\ verdict.ok <=> passes
            /\ verdict.ok => verdict.msg = None
            /\ ~verdict.ok =>
                   /\ verdict.msg # None
                   /\ Len(verdict.msg) = 1
                   /\ verdict.msg[1] \in messages
            /\ Cardinality(messages) = 3

\* a string rejected for its underscores alone, with that rule's message
C8_Witness ==
    /\ at = "checked"
    /\ FitsPattern(arg)
    /\ Len(arg) <= 32
    /\ ~verdict.ok
    /\ verdict.msg = Some(MsgUnderscores)

---------------------------------------------------------------------------
(* Claims about the 'new' command, checked under Spec.                     *)

\* the character gate has been called and has refused the name
GateRefused ==
    \E i \in 1..Len(calls) :
        calls[i].fn = "has_invalid_characters" /\ calls[i].ret.flag

\* C9: a raw name with a disallowed character makes the command end with
\* exit code 1 at the gate: the normaliser, the slug derivation, the
\* availability lookup, the detail collection and the scaffolder are never
\* called and no warning list is produced.
C9_CharacterGateFatal ==
    /\ GateRefused =>
           /\ pc = "exit"
           /\ exit_code = Some(1)
           /\ Called = <<"has_invalid_characters">>
           /\ calls[1].args = <<project_name_arg>>
           /\ stderr = <<<<"Error: ">> \o Fmt(calls[1].ret.msg)>>
           /\ pypi_slug = <<>>
           /\ python_slug = <<>>
           /\ name_data = None
           /\ project_details = None
           /\ stdout = <<>>
    /\ (\E i \in 1..Len(project_name_arg) : project_name_arg[i] = "!")
           /\ pc \notin {"new", "gate"}
           => GateRefused

\* the run on "invalid!name" has ended at the gate
C9_Witness ==
    /\ project_name_arg = InvalidBangName
    /\ GateRefused
    /\ pc = "exit"
    /\ exit_code = Some(1)

\* C10: the empty raw name is reported as 'Project name cannot be empty', the
\* command ends with exit code 1, and neither the character gate nor the
\* normaliser, the lookup, the detail collection or the scaffolder is called.
C10_EmptyNameFatal ==
    project_name_arg = <<>> /\ pc # "new" =>
        /\ pc = "exit"
        /\ exit_code = Some(1)
        /\ stderr = <<MsgEmptyName>>
        /\ calls = <<>>
        /\ pypi_slug = <<>>
        /\ python_slug = <<>>
        /\ name_data = None
        /\ project_details = None
        /\ stdout = <<>>

\* the run on the empty name has ended
C10_Witness ==
    /\ project_name_arg = <<>>
    /\ pc = "exit"
    /\ exit_code = Some(1)
    /\ stderr = <<MsgEmptyName>>


---------------------------------------------------------------------------
(* Claims about the warnings of one run of 'new', checked under Spec.      *)

\* sub occurs in s as a contiguous part
IsInfix(sub, s) ==
    \E i \in 0..(Len(s) - Len(sub)) : SubSeq(s, i + 1, i + Len(sub)) = sub

\* what pep503_name_ok returned in this run, once it has been called
NameOkRan == \E i \in DOMAIN calls : calls[i].fn = "pep503_name_ok"
NameOkResult == pep503_name_ok(project_name_arg)

\* the line in which the diagnostic of pep503_name_ok is printed
NameWarningLine == MsgNameWarning(project_name_arg, NameOkResult.msg)

\* C11 as stated: when the registry-slug convention check on the original raw
\* name fails, its diagnostic is the first entry of the WarningList, which is
\* therefore non-empty when handed to the caller.
C11_NameWarningFirstInList ==
    (name_data # None /\ ~NameOkResult.ok) =>
        /\ name_data[1].name_warnings # <<>>
        /\ IsInfix(Fmt(NameOkResult.msg), name_data[1].name_warnings[1])

\* C11 amended: when the registry-slug convention check on the original raw
\* name fails, its diagnostic is printed to stderr as a warning line and is
\* in no entry of the WarningList, which holds only the availability and the
\* package-identifier warnings and may be empty.
C11_NameWarningPrintedNotListed ==
    (NameOkRan /\ ~NameOkResult.ok) =>
        /\ \E k \in DOMAIN stderr : stderr[k] = NameWarningLine
        /\ name_data # None =>
               \A k \in DOMAIN name_data[1].name_warnings :
                   ~IsInfix(Fmt(NameOkResult.msg), name_data[1].name_warnings[k])

\* a raw name that fails the check, is resolved, and has an empty WarningList
C11_Witness ==
    /\ name_data # None
    /\ ~NameOkResult.ok
    /\ name_data[1].name_warnings = <<>>
    /\ \E k \in DOMAIN stderr : stderr[k] = NameWarningLine

\* what check_pypi_availability returned in this run, once it has been called
LookupRan == \E i \in DOMAIN calls : calls[i].fn = "check_pypi_availability"
LookupResult ==
    calls[CHOOSE i \in DOMAIN calls : calls[i].fn = "check_pypi_availability"].ret

\* the kinds of warning, told by their opening words
IsTakenWarning(w) == w # <<>> /\ w[1] = "The name '"
IsFailedWarning(w) == w # <<>> /\ w[1] = "PyPI availability check for '"
IsAvailabilityWarning(w) == IsTakenWarning(w) \/ IsFailedWarning(w)
IsPythonSlugWarning(w) == w # <<>> /\ w[1] = "Derived Python package name '"

\* the availability warnings of the WarningList, in order
AvailabilityWarnings == SelectSeq(name_data[1].name_warnings, IsAvailabilityWarning)

\* C12: 'available' (not taken, no error message) appends nothing, 'taken'
\* appends exactly one warning recommending a different name, 'lookup failed'
\* (an error message is present) appends exactly one warning that contains the
\* failure reason, and the WarningList never holds two availability warnings.
C12_AvailabilityWarnings ==
    name_data # None =>
        /\ Len(AvailabilityWarnings) <= 1
        /\ (~Truthy(LookupResult.error) /\ LookupResult.is_taken # Some(TRUE)) =>
               AvailabilityWarnings = <<>>
        /\ (~Truthy(LookupResult.error) /\ LookupResult.is_taken = Some(TRUE)) =>
               /\ AvailabilityWarnings = <<MsgTaken(pypi_slug)>>
               /\ \E k \in DOMAIN AvailabilityWarnings[1] :
                      AvailabilityWarnings[1][k] =
                          "' might already be taken on PyPI. You may want to choose a different name if you plan to publish this package publicly."
        /\ Truthy(LookupResult.error) =>
               /\ AvailabilityWarnings =
                      <<MsgAvailabilityFailed(pypi_slug, LookupResult.error)>>
               /\ IsInfix(LookupResult.error[1], AvailabilityWarnings[1])

\* a lookup that reports both 'taken' and an error: one warning, the failure
C12_Witness ==
    /\ name_data # None
    /\ LookupResult.is_taken = Some(TRUE)
    /\ LookupResult.error = Some(NetworkError)
    /\ Len(AvailabilityWarnings) = 1
    /\ IsFailedWarning(AvailabilityWarnings[1])

\* C13: whenever the WarningList holds an availability warning and a
\* package-identifier warning, the availability warning is at the lower index.
C13_AvailabilityBeforePythonSlug ==
    name_data # None =>
        LET ws == name_data[1].name_warnings
        IN  \A i, j \in DOMAIN ws :
                (IsAvailabilityWarning(ws[i]) /\ IsPythonSlugWarning(ws[j])) => i < j

\* a taken slug whose derived identifier fails its check: two warnings
C13_Witness ==
    /\ name_data # None
    /\ Len(name_data[1].name_warnings) = 2
    /\ IsTakenWarning(name_data[1].name_warnings[1])
    /\ IsPythonSlugWarning(name_data[1].name_warnings[2])

---------------------------------------------------------------------------
(* Claims about the details and the end of one run of 'new'.               *)

\* what load_from_env returned in this run, once the non-interactive detail
\* source has run
NonInteractiveRan ==
    cmd_options.no_interactive /\ \E i \in DOMAIN calls : calls[i].fn = "load_from_env"
EnvResult == calls[CHOOSE i \in DOMAIN calls : calls[i].fn = "load_from_env"].ret

\* author name and author email are available after merging
AuthorAvailable ==
    LET details == MergedDetails(cmd_options, EnvResult)
    IN  details["author_name"] # <<>> /\ details["author_email"] # <<>>

\* the scaffolder and its outcome
ScaffolderCalled == \E i \in DOMAIN calls : calls[i].fn = "create_base_structure"
ScaffoldOutcome ==
    calls[CHOOSE i \in DOMAIN calls : calls[i].fn = "create_base_structure"].ret

\* C14: in non-interactive mode, whatever the WarningList, the warnings are
\* logged, nobody is asked, and with author name and author email available
\* the run is never stuck and ends only after the scaffolder was called, with
\* the exit code of the scaffolder's outcome whatever the warnings are.
C14_WarningsNeverAbort ==
    NonInteractiveRan =>
        LET ws == name_data[1].name_warnings
        IN  /\ ws # <<>> =>
                   IsInfix(<<MsgWarningsNonInteractive>> \o WarningLines(ws), stderr)
            /\ \A i \in DOMAIN calls : calls[i].fn # "input"
            /\ AuthorAvailable =>
                   /\ project_details # None
                   /\ pc # "exit" => ENABLED Next
                   /\ pc = "exit" =>
                          /\ ScaffolderCalled
                          /\ exit_code =
                                 Some(IF ScaffoldOutcome = "created" THEN 0 ELSE 1)

\* a non-interactive run with two warnings that ends with exit code 0
C14_Witness ==
    /\ NonInteractiveRan
    /\ Len(name_data[1].name_warnings) = 2
    /\ ScaffolderCalled
    /\ exit_code = Some(0)

\* the interactive wizard has run
InteractiveRan ==
    /\ ~cmd_options.no_interactive
    /\ \E i \in DOMAIN calls : calls[i].fn = "collect_project_details"

\* the positions in the call record of the confirmation and of the first
\* step of the collection of details
AskedAt == {i \in DOMAIN calls : calls[i].fn = "input"}
CollectedAt == {i \in DOMAIN calls : calls[i].fn = "get_git_config_value"}

\* s without the white space around it
Trimmed(s) ==
    LET inked == {i \in 1..Len(s) : s[i] \notin Whitespace}
    IN  IF inked = {} THEN <<>>
        ELSE SubSeq(s, CHOOSE i \in inked : \A j \in inked : i <= j,
                       CHOOSE i \in inked : \A j \in inked : i >= j)

\* C15: in interactive mode with warnings the user is asked once, before any
\* detail is collected; the empty answer and every answer other than 'no'
\* (trimmed, lower-cased) proceed, 'no' returns None with nothing collected;
\* without warnings nobody is asked; and a None result ends the command with
\* exit code 1 and no call of the scaffolder.
C15_ConfirmationOnWarnings ==
    /\ InteractiveRan =>
           IF name_data[1].name_warnings = <<>>
           THEN AskedAt = {} /\ CollectedAt # {} /\ project_details # None
           ELSE /\ Cardinality(AskedAt) = 1
                /\ \A i \in AskedAt :
                       /\ calls[i].args = <<MsgProceedPrompt>>
                       /\ \A j \in CollectedAt : i < j
                       /\ calls[i].ret = <<>> => project_details # None
                       /\ IF Lower(Trimmed(calls[i].ret)) = <<"n", "o">>
                          THEN project_details = None /\ CollectedAt = {}
                          ELSE project_details # None /\ CollectedAt # {}
    /\ (pc \in {"got_details", "exit"} /\ name_data # None /\ project_details = None) =>
           /\ ~ScaffolderCalled
           /\ IF pc = "exit" THEN exit_code = Some(1) ELSE ENABLED Next

\* the answer ' NO ' to the confirmation: the command has ended with code 1
C15_Witness ==
    /\ InteractiveRan
    /\ \E i \in AskedAt : calls[i].ret = <<" ", "N", "O", " ">>
    /\ project_details = None
    /\ exit_code = Some(1)

---------------------------------------------------------------------------
(* Claims about the non-interactive detail source, checked under           *)
(* SpecDetails and, within the command, under Spec.                        *)

\* the value the precedence gives a field: the flag when given, else the
\* environment's when present, else MIT for the license and 3.11 for the
\* python version, else the empty string
Expected(field) ==
    LET flag == CliValue(cmd_options, field)
        env == EnvResult[EnvKey(field)]
    IN  CASE flag # None -> flag[1]
          [] flag = None /\ env # None -> env[1]
          [] flag = None /\ env = None /\ field = "license" -> <<"MIT">>
          [] flag = None /\ env = None /\ field = "python_version_preference" -> <<"3.11">>
          [] OTHER -> <<>>

\* C16: every one of the six fields of the returned details is the flag when
\* given, otherwise the environment value when present, otherwise the fixed
\* default (MIT, 3.11), otherwise the empty string, each field on its own.
C16_MergePrecedence ==
    (pc = "details_returned" /\ project_details # None) =>
        /\ DOMAIN project_details[1] = FieldSet
        /\ \A field \in FieldSet : project_details[1][field] = Expected(field)

\* author from the flag though the environment has one too, e-mail from the
\* environment, the license by default, no description anywhere
C16_Witness ==
    /\ pc = "details_returned"
    /\ project_details # None
    /\ cmd_options.author = Some(FlagAuthor)
    /\ EnvResult["AUTHOR_NAME"] = Some(EnvAuthor)
    /\ project_details[1]["author_name"] = FlagAuthor
    /\ project_details[1]["author_email"] = EnvEmail
    /\ project_details[1]["license"] = DEFAULT_LICENSE
    /\ project_details[1]["project_description"] = <<>>
    /\ project_details[1]["python_version_preference"] = PYTHON_VERSIONS[3]

\* the required fields that are unset or empty after merging, in order
MissingRequired == SelectSeq(<<"author_name", "author_email">>, LAMBDA f : Expected(f) = <<>>)

\* the lines of stderr that name a missing field
MissingLines == SelectSeq(stderr, LAMBDA line : line # <<>> /\ line[1] = "  - ")

\* C17: in non-interactive mode, if author_name or author_email is unset or
\* empty after merging, the detail source returns None, its one report lists
\* every missing required field, and the command ends with exit code 1 and no
\* call of the scaffolder; if both are non-empty it returns the details.
C17_MissingRequiredFields ==
    NonInteractiveRan =>
        IF MissingRequired # <<>>
        THEN /\ project_details = None
             /\ MissingLines = [i \in 1..Len(MissingRequired) |-> <<"  - ", MissingRequired[i]>>]
             /\ Len(SelectSeq(stderr, LAMBDA line : line = MsgMissingFields)) = 1
             /\ ~ScaffolderCalled
             /\ pc = "got_details" => ENABLED Next
             /\ pc = "exit" => exit_code = Some(1)
        ELSE /\ project_details # None
             /\ MissingLines = <<>>
             /\ \A k \in DOMAIN stderr : stderr[k] # MsgMissingFields

\* both fields missing, the author given as the empty string on the command
\* line over a value in the environment: both are listed, the exit code is 1
C17_Witness ==
    /\ NonInteractiveRan
    /\ project_details = None
    /\ cmd_options.author = Some(<<>>)
    /\ EnvResult["AUTHOR_NAME"] = Some(EnvAuthor)
    /\ Len(MissingLines) = 2
    /\ exit_code = Some(1)

\* the positions in the call record of the scaffolder and of the two detail
\* sources
ScaffoldedAt == {i \in DOMAIN calls : calls[i].fn = "create_base_structure"}
DetailsAt ==
    {i \in DOMAIN calls : calls[i].fn \in {"load_from_env", "collect_project_details"}}

\* the ways a run ends
EndedByEmptyName == pc = "exit" /\ project_name_arg = <<>>
EndedByGate == pc = "exit" /\ GateRefused
EndedByDecline == pc = "exit" /\ InteractiveRan /\ project_details = None
EndedByMissingFields == pc = "exit" /\ NonInteractiveRan /\ project_details = None
EndedByScaffolderFailure ==
    pc = "exit" /\ ScaffolderCalled /\ ScaffoldOutcome \in {"FileExistsError", "OSError"}
EndedByScaffolderSuccess ==
    pc = "exit" /\ ScaffolderCalled /\ ScaffoldOutcome = "created"

\* C18: a run ends with exit code 0 only if the scaffolder was called and
\* returned, and with exit code 1 when it ends by empty name, disallowed
\* characters, declined confirmation, missing required fields or a failure
\* of the scaffolder; the scaffolder is called at most once, and only after
\* the details were obtained.
C18_ExitCodes ==
    /\ pc = "exit" <=> exit_code # None
    /\ pc = "exit" =>
           /\ exit_code \in {Some(0), Some(1)}
           /\ exit_code = Some(0) <=> EndedByScaffolderSuccess
           /\ (\/ EndedByEmptyName
               \/ EndedByGate
               \/ EndedByDecline
               \/ EndedByMissingFields
               \/ EndedByScaffolderFailure) => exit_code = Some(1)
           /\ \/ EndedByEmptyName
              \/ EndedByGate
              \/ EndedByDecline
              \/ EndedByMissingFields
              \/ EndedByScaffolderFailure
              \/ EndedByScaffolderSuccess
    /\ Cardinality(ScaffoldedAt) <= 1
    /\ \A i \in ScaffoldedAt :
           /\ project_details # None
           /\ \E j \in DetailsAt : j < i

\* a run that ended because the project directory exists
C18_Witness ==
    /\ EndedByScaffolderFailure
    /\ ScaffoldOutcome = "FileExistsError"
    /\ exit_code = Some(1)

---------------------------------------------------------------------------
(* End-to-end claims, checked under Spec.                                  *)

\* the availability lookup reported 'not taken': no error, not taken
LookupNotTaken ==
    /\ LookupRan
    /\ ~Truthy(LookupResult.error)
    /\ LookupResult.is_taken # Some(TRUE)

OnlyAsciiLetters(s) ==
    s # <<>> /\ \A i \in 1..Len(s) : s[i] \in LowerLetters \cup UpperLetters

\* C19: for the raw name "TestProject" with the lookup reporting not taken,
\* the registry slug is "testproject", the package identifier is
\* "testproject", the WarningList is empty, and the scaffolder is called with
\* the original name and the package identifier; the same holds, with the
\* name in lower case, of every raw name of at most 32 ASCII letters.
C19_TestProjectEndToEnd ==
    /\ (project_name_arg = TestProject /\ name_data # None /\ LookupNotTaken) =>
           /\ name_data[1].original_arg =
                  <<"T", "e", "s", "t", "P", "r", "o", "j", "e", "c", "t">>
           /\ name_data[1].pypi_slug =
                  <<"t", "e", "s", "t", "p", "r", "o", "j", "e", "c", "t">>
           /\ name_data[1].python_slug =
                  <<"t", "e", "s", "t", "p", "r", "o", "j", "e", "c", "t">>
           /\ name_data[1].name_warnings = <<>>
           /\ \A i \in ScaffoldedAt :
                  calls[i].args =
                      <<<<"T", "e", "s", "t", "P", "r", "o", "j", "e", "c", "t">>,
                        <<"t", "e", "s", "t", "p", "r", "o", "j", "e", "c", "t">>>>
    /\ (OnlyAsciiLetters(project_name_arg) /\ Len(project_name_arg) <= 32
            /\ pc \notin {"new", "gate"}) => ~GateRefused
    /\ (OnlyAsciiLetters(project_name_arg) /\ Len(project_name_arg) <= 32
            /\ name_data # None /\ LookupNotTaken) =>
           /\ name_data[1].pypi_slug = Lower(project_name_arg)
           /\ name_data[1].python_slug = Lower(project_name_arg)
           /\ name_data[1].name_warnings = <<>>
           /\ \A i \in ScaffoldedAt :
                  calls[i].args = <<project_name_arg, Lower(project_name_arg)>>

\* "TestProject", not taken, scaffolded: the run ended with exit code 0
C19_Witness ==
    /\ project_name_arg = TestProject
    /\ LookupNotTaken
    /\ name_data[1].name_warnings = <<>>
    /\ ScaffolderCalled
    /\ exit_code = Some(0)

\* what is_valid_python_package_name returned in this run
ValidatorResult ==
    calls[CHOOSE i \in DOMAIN calls : calls[i].fn = "is_valid_python_package_name"].ret

\* the package-identifier warnings of the WarningList
PythonSlugWarnings == SelectSeq(name_data[1].name_warnings, IsPythonSlugWarning)

---------------------------------------------------------------------------
(* Claims about what name resolution prints and calls, checked under Spec. *)

\* the normaliser has been called in this run
NormalizeRan == \E i \in DOMAIN calls : calls[i].fn = "pep503_normalize"

\* a line or a warning that says the name was normalized
IsNormalizedNotice(w) == \E k \in DOMAIN w : w[k] = "' normalized to '"

\* C21: the 'normalized' notice is printed if and only if the raw name
\* differs from the registry slug; it is never an element of the WarningList,
\* and alone it causes no confirmation and does not stop the run.
C21_NormalizedNotice ==
    /\ NormalizeRan =>
           /\ (\E k \in DOMAIN stderr : IsNormalizedNotice(stderr[k]))
                  <=> project_name_arg # pypi_slug
           /\ project_name_arg # pypi_slug =>
                  Len(SelectSeq(stderr,
                          LAMBDA line :
                              line = <<"Warning: Project name '">> \o project_name_arg
                                         \o <<"' normalized to '">> \o pypi_slug
                                         \o <<"'.">>)) = 1
    /\ ~NormalizeRan => \A k \in DOMAIN stderr : ~IsNormalizedNotice(stderr[k])
    /\ name_data # None =>
           \A k \in DOMAIN name_data[1].name_warnings :
               ~IsNormalizedNotice(name_data[1].name_warnings[k])
    /\ (InteractiveRan /\ project_name_arg # pypi_slug
            /\ LookupResult.is_taken # Some(TRUE) /\ ~Truthy(LookupResult.error)
            /\ ValidatorResult.ok) =>
           AskedAt = {} /\ project_details # None

\* a raw name that is rewritten and has no warning: the notice is printed,
\* nobody is asked and the run ends with exit code 0
C21_Witness ==
    /\ InteractiveRan
    /\ project_name_arg # pypi_slug
    /\ \E k \in DOMAIN stderr : IsNormalizedNotice(stderr[k])
    /\ name_data[1].name_warnings = <<>>
    /\ AskedAt = {}
    /\ exit_code = Some(0)

\* the checks of name resolution, in the order of the claim
ResolutionCalls ==
    <<"has_invalid_characters", "pep503_normalize", "pep503_name_ok",
      "derive_python_package_slug", "check_pypi_availability",
      "is_valid_python_package_name">>

\* how many times f was called
TimesCalled(f) == Cardinality({i \in DOMAIN calls : calls[i].fn = f})

\* C22: in every run that passes the fatal gates each check is called once,
\* in order: pep503_name_ok on the raw name, the derivation and the
\* availability lookup on the registry slug, the lookup before the
\* package-identifier check, that check on the derived identifier, and only
\* then the detail collection, which receives the slug and the WarningList.
C22_CheckOrder ==
    /\ pc = "name_checks" => Called = SubSeq(ResolutionCalls, 1, 4)
    /\ name_data # None =>
           /\ SubSeq(Called, 1, 6) = ResolutionCalls
           /\ \A k \in 1..6 : TimesCalled(ResolutionCalls[k]) = 1
           /\ calls[2].args = <<project_name_arg>>
           /\ calls[2].ret = pypi_slug
           /\ calls[3].args = <<project_name_arg>>
           /\ calls[4].args = <<pypi_slug>>
           /\ calls[4].ret = python_slug
           /\ calls[5].args = <<pypi_slug>>
           /\ calls[6].args = <<python_slug>>
           /\ \A i \in DetailsAt : i = 7
           /\ \A i \in DetailsAt :
                  calls[i].fn = "collect_project_details" =>
                      calls[i].args = <<pypi_slug, name_data[1].name_warnings>>
           /\ name_data[1].pypi_slug = pypi_slug
           /\ pc \notin {"name_checks", "details"} => Cardinality(DetailsAt) = 1

\* a name that normalization rewrites, resolved with a warning and handed to
\* the wizard
C22_Witness ==
    /\ InteractiveRan
    /\ project_name_arg = MyProject
    /\ calls[5].args = <<<<"m", "y", "-", "p", "r", "o", "j", "e", "c", "t">>>>
    /\ calls[7].fn = "collect_project_details"
    /\ Len(calls[7].args[2]) = 1

NameKeys ==
    {"project_name_original", "project_name_normalized", "pypi_slug",
     "python_package_slug"}

\* the details have been assembled
Assembled == pc \in {"create", "exit"} /\ project_details # None

\* C24: the names recorded for scaffolding are those of name resolution,
\* whatever the detail collection returned: project_name_original is the raw
\* name, project_name_normalized and pypi_slug are pep503_normalize(raw name),
\* python_package_slug is the derived identifier, the six collected fields are
\* kept, and the scaffolder is called with the original name and the derived
\* identifier; name resolution itself is not changed by the collection.
C24_RecordedNames ==
    /\ name_data # None =>
           name_data[1] =
               [original_arg |-> project_name_arg,
                pypi_slug |-> pep503_normalize(project_name_arg),
                python_slug |-> derive_python_package_slug(pep503_normalize(project_name_arg)),
                name_warnings |-> AvailabilityWarnings \o PythonSlugWarnings]
    /\ Assembled =>
           LET details == project_details[1]
           IN  /\ DOMAIN details = FieldSet \cup NameKeys
               /\ details["project_name_original"] = project_name_arg
               /\ details["project_name_normalized"] = pep503_normalize(project_name_arg)
               /\ details["pypi_slug"] = pep503_normalize(project_name_arg)
               /\ details["python_package_slug"] = name_data[1].python_slug
               /\ NonInteractiveRan =>
                      \A field \in FieldSet : details[field] = Expected(field)
               /\ \A i \in ScaffoldedAt :
                      calls[i].args = <<project_name_arg, name_data[1].python_slug>>

\* "My_Project" scaffolded: recorded under the raw name, with the package
\* "my_project"
C24_Witness ==
    /\ Assembled
    /\ project_name_arg = MyProject
    /\ project_details[1]["project_name_original"] = MyProject
    /\ project_details[1]["pypi_slug"] = <<"m", "y", "-", "p", "r", "o", "j", "e", "c", "t">>
    /\ project_details[1]["python_package_slug"] =
           <<"m", "y", "_", "p", "r", "o", "j", "e", "c", "t">>
    /\ ScaffolderCalled

---------------------------------------------------------------------------
(* The debug mode.                                                         *)

TrueWords == {<<"t", "r", "u", "e">>, <<"1">>, <<"y", "e", "s">>}
FalseWords == {<<"f", "a", "l", "s", "e">>, <<"0">>, <<"n", "o">>}
EnvSaysTrue == environ # None /\ Lower(environ[1]) \in TrueWords
EnvInvalid == environ # None /\ Lower(environ[1]) \notin (TrueWords \cup FalseWords)
GroupRan == pc # "cli" /\ ctx_obj # None
DebugDetailLines ==
    {i \in DOMAIN stdout :
        /\ Len(stdout[i]) >= 1
        /\ stdout[i][1] = "With details: "}

---------------------------------------------------------------------------
(* The names pep503_name_ok accepts, against its documentation.            *)

\* C26: every name pep503_name_ok accepts is a lower-case identifier: only
\* lower-case letters, digits and underscores, not starting with a digit,
\* hence no capital letter, no hyphen and no dot.
C26_AcceptedIsLowerIdentifier ==
    at = "checked" /\ verdict.ok =>
        /\ \A i \in DOMAIN arg : arg[i] \in LowerLetters \cup Digits \cup {"_"}
        /\ arg # <<>> => arg[1] \notin Digits

---------------------------------------------------------------------------
(* validate_project_name.                                                  *)

ValidatorAccepts == LowerLetters \cup UpperLetters \cup Digits \cup {"É", "é", "-", "_"}
HasChar(s, c) == \E i \in DOMAIN s : s[i] = c

\* C27: validate_project_name returns (True, None) exactly when every
\* character of the name is alphanumeric, a hyphen or an underscore, and
\* otherwise (False, message) with the name in the message; a name with '.'
\* or '!' is rejected and the empty string is accepted.
C27_ValidateProjectName ==
    at = "validated" =>
        /\ verdict.ok <=> \A i \in DOMAIN arg : arg[i] \in ValidatorAccepts
        /\ verdict.ok => verdict = Result(TRUE, None)
        /\ ~verdict.ok => verdict.msg # None /\ IsInfix(arg, verdict.msg[1])
        /\ HasChar(arg, ".") \/ HasChar(arg, "!") => ~verdict.ok
        /\ arg = <<>> => verdict.ok

C27_Witness ==
    /\ at = "validated"
    /\ HasChar(arg, ".")
    /\ ~HasChar(arg, "!")
    /\ ~HasChar(arg, "\n")
    /\ ~verdict.ok

---------------------------------------------------------------------------
(* Normalization and the convention check together.                        *)

---------------------------------------------------------------------------
(* The classification of the availability result.                          *)

TakenWarnings == SelectSeq(name_data[1].name_warnings, IsTakenWarning)
FailedWarnings == SelectSeq(name_data[1].name_warnings, IsFailedWarning)
NoErrorMessage == LookupResult.error \in {None, Some(<<>>)}

\* C29: the error message decides first: with a non-empty error message the
\* WarningList holds the 'check failed' warning and no 'taken' warning,
\* whatever isTaken is; with a null or empty error message it holds no 'check
\* failed' warning and holds the 'taken' warning exactly when isTaken is true,
\* so isTaken = null without an error message appends nothing.
C29_ErrorDecidesFirst ==
    name_data # None =>
        /\ ~NoErrorMessage =>
               /\ Len(FailedWarnings) = 1
               /\ TakenWarnings = <<>>
        /\ NoErrorMessage =>
               /\ FailedWarnings = <<>>
               /\ Len(TakenWarnings) = (IF LookupResult.is_taken = Some(TRUE) THEN 1 ELSE 0)
        /\ NoErrorMessage /\ LookupResult.is_taken = None =>
               \A i \in DOMAIN name_data[1].name_warnings :
                   ~IsAvailabilityWarning(name_data[1].name_warnings[i])

\* an empty error message with isTaken true: the 'taken' warning
C29_Witness ==
    /\ name_data # None
    /\ LookupResult.error = Some(<<>>)
    /\ LookupResult.is_taken = Some(TRUE)
    /\ Len(TakenWarnings) = 1
    /\ FailedWarnings = <<>>

---------------------------------------------------------------------------
(* The loop of prompt_for_choice.                                          *)

\* the lines read so far, in order
LinesRead ==
    LET reads == SelectSeq(calls, LAMBDA c : c.ret # None)
    IN  [i \in 1..Len(reads) |-> reads[i].ret[1]]
\* the choice a line asks for: 0 when it is no integer
NumberTyped(line) ==
    IF int(Strip(line)).raised THEN 0 ELSE int(Strip(line)).value
IsBlank(line) == Strip(line) = <<>>
IsNumberInRange(line) ==
    /\ ~int(Strip(line)).raised
    /\ NumberTyped(line) \in 1..Len(choice_args.choices)
Acceptable(line) == IsBlank(line) \/ IsNumberInRange(line)
\* what is printed for a line that is not acceptable
Complaint(line) ==
    IF int(Strip(line)).raised THEN MsgInvalidInput
    ELSE MsgInvalidChoice(choice_args.choices)
Refused == SelectSeq(LinesRead, LAMBDA line : ~Acceptable(line))
ListingLength == 1 + Len(choice_args.choices)

\* C30: prompt_for_choice has returned exactly when a line read is blank or
\* an integer from 1 to the number of choices, that line is the last one
\* read, and the value is the default for a blank line and the numbered
\* choice otherwise, hence the default or a member of the list; every other
\* line read has printed its message, in order, and left the loop prompting.
C30_PromptForChoiceLoop ==
    pc \in {"choice_prompt", "choice_returned", "choice_raised"} =>
        /\ (selected # None) = (pc = "choice_returned")
        /\ (selected # None) = (\E i \in DOMAIN LinesRead : Acceptable(LinesRead[i]))
        /\ \A i \in DOMAIN LinesRead : Acceptable(LinesRead[i]) => i = Len(LinesRead)
        /\ selected # None =>
               LET last == LinesRead[Len(LinesRead)]
               IN  /\ IsBlank(last) => selected = Some(choice_args.default_choice)
                   /\ ~IsBlank(last) => selected = Some(choice_args.choices[NumberTyped(last)])
                   /\ \/ selected[1] = choice_args.default_choice
                      \/ \E k \in DOMAIN choice_args.choices :
                             selected[1] = choice_args.choices[k]
        /\ Len(stdout) = ListingLength + Len(Refused)
        /\ \A i \in DOMAIN Refused : stdout[ListingLength + i] = Complaint(Refused[i])
        /\ pc = "choice_returned" => ~ENABLED ChoiceNext
        /\ (pc = "choice_prompt" /\ Len(calls) < MaxInputs) => ENABLED ReadChoice

\* text, then a number out of range, then a padded number in range
C30_Witness ==
    /\ pc = "choice_returned"
    /\ LinesRead = <<<<"M", "I", "T">>, <<"4">>, <<" ", "2", " ">>>>
    /\ selected = Some(choice_args.choices[2])
    /\ selected # Some(choice_args.default_choice)
    /\ Len(Refused) = 2
=============================================================================
